---------------------------- MODULE Spec2Model ----------------------------
(***************************************************************************)
(* "Where does my money go?" (NYC edition), src/app/page.tsx.              *)
(*                                                                         *)
(* The file holds two pages: the breadcrumb page (lines 1-1407: label      *)
(* rails, breadcrumb navigation) and the legend page (lines 1409-1873:     *)
(* donut with a legend, no breadcrumb).  Both share the tax engine and the *)
(* weight normalisation; they differ in their data and in their handlers.  *)
(*                                                                         *)
(* Numbers.  The program computes in IEEE doubles.  The model computes in  *)
(* fixed point, rounding every product and quotient down to the unit:      *)
(*   money    in 1/MoneyScale dollars (incomes themselves are whole        *)
(*            dollars: the input keeps digits only),                       *)
(*   weights  in 1/WeightScale of the source's decimal literals,           *)
(*   fractions (norm) in 1/NormScale,                                      *)
(*   angles and percentages in 1/AngleScale degrees / percent.             *)
(* TLC's integers are 32-bit, so a*b/c is computed by MulDiv, which never  *)
(* forms the product a*b.                                                  *)
(***************************************************************************)
EXTENDS Integers, Sequences, FiniteSets, TLC

VARIABLES
  variant,                   \* "breadcrumb" | "legend": which page is running
  income,                    \* Page: useState income (whole dollars)
  unlockedLevel,             \* Page: useState unlockedLevel
  selectedCategoryId,        \* Page: useState selectedCategoryId (NULL = null)
  selectedSubcategoryLabel,  \* Page: useState selectedSubcategoryLabel
  effectCategoryId,          \* the dependency [selectedCategoryId] the
                             \* subcategory-clearing effect last ran with
  hist,                      \* the last Page handler that ran and the state it ran in
  viewport,                  \* the window's width, which the geometry that
                             \* getBoundingClientRect reads depends on
  ringMounted,               \* the RingWithLabelRails the page has mounted:
                             \* "none" | "category" | "subcategory"
  slices,                    \* RingWithLabelRails: useMemo slices (by label)
  hoveredLabel,              \* RingWithLabelRails: useState hoveredLabel
  lines,                     \* RingWithLabelRails: useState lines (connectors)
  listeners,                 \* window: the resize listeners registered
  closure,                   \* the slices the registered measureLines closes over
  rerender,                  \* RingWithLabelRails: the render that setLines
                             \* scheduled is due
  ringHist,                  \* what the last step did to the ring
  call,                      \* a call of one of the pure functions: [fn, arg]
  ret                        \* its result: [done, val]

vars == <<variant, income, unlockedLevel, selectedCategoryId,
          selectedSubcategoryLabel, effectCategoryId, hist,
          viewport, ringMounted, slices, hoveredLabel, lines, listeners,
          closure, rerender, ringHist, call, ret>>

ringVars == <<viewport, ringMounted, slices, hoveredLabel, lines, listeners,
              closure, rerender, ringHist>>

pageVars == <<variant, income, unlockedLevel, selectedCategoryId,
              selectedSubcategoryLabel, effectCategoryId, hist>>

NULL == "null"

(***************************************************************************)
(* Bounds of the model.                                                    *)
(***************************************************************************)
\* incomes, in dollars, on each side of a bracket boundary
IncomeSpread == 1
\* longest sibling group / slice list given to the pure functions
MaxLen == 3
\* largest weight of a sibling group given to normalizeWeights
MaxWeight == 3
\* largest slice value given to computeDonutSlices, in quarter dollars
MaxValue == 5

(***************************************************************************)
(* Fixed-point units.                                                      *)
(***************************************************************************)
MoneyScale == 100000
WeightScale == 1000
NormScale == 100000000
AngleScale == 1000

(***************************************************************************)
(* Arithmetic.                                                             *)
(***************************************************************************)
Max(a, b) == IF a >= b THEN a ELSE b

Abs(a) == IF a >= 0 THEN a ELSE -a

RECURSIVE RadixFor(_, _)
\* the largest power of two R, r <= R <= 2^15, with c * R <= 2^30
RadixFor(c, r) ==
  IF r < 2 ^ 15 /\ c <= (2 ^ 30) \div (2 * r) THEN RadixFor(c, 2 * r) ELSE r

RECURSIVE MulDivQR(_, _, _, _)
\* <<q, r>> with a*b = q*c + r and 0 <= r < c, for a, b >= 0 and 0 < c <= 2^29,
\* taking the digits of b in radix R (c * R <= 2^30) from the most significant
\* one: no intermediate value exceeds 2^31.
MulDivQR(a, b, c, R) ==
  IF b = 0 THEN <<0, 0>>
  ELSE LET h == MulDivQR(a, b \div R, c, R)
           d == b % R
           t == h[2] * R + (a % c) * d
       IN  <<h[1] * R + (a \div c) * d + t \div c, t % c>>

\* a*b/c rounded down: the model's product and quotient of two doubles
MulDiv(a, b, c) ==
  IF a <= b THEN MulDivQR(b, a, c, RadixFor(c, 2))[1]
  ELSE MulDivQR(a, b, c, RadixFor(c, 2))[1]

(***************************************************************************)
(* TaxEngine.                                                              *)
(***************************************************************************)
nyStandardDeduction == 8000

Threshold1 == 12000
Threshold2 == 25000
Threshold3 == 50000

Base2 == 369
Base3 == 858
Base4 == 1813

\* marginal rates, in 1/MoneyScale per dollar: 0.03078, 0.03762, 0.03819, 0.03876
Rate1 == 3078
Rate2 == 3762
Rate3 == 3819
Rate4 == 3876

\* The mutant does not clamp.
clamp0_Identity(n) == n

clamp0(n) == Max(0, n)

\* Mutants of the schedule: the base of the third bracket mistyped (585 for
\* 858), the first rate mistyped (0.0378 for 0.03078), and the brackets closed
\* on the left (x < 12000) instead of on the right.
computeNYCResidentTaxRateSchedule_RateTypo(x, filingStatus) ==
  IF x <= Threshold1 THEN 3780 * x
  ELSE IF x <= Threshold2 THEN Base2 * MoneyScale + Rate2 * (x - Threshold1)
  ELSE IF x <= Threshold3 THEN Base3 * MoneyScale + Rate3 * (x - Threshold2)
  ELSE Base4 * MoneyScale + Rate4 * (x - Threshold3)

computeNYCResidentTaxRateSchedule_LeftClosed(x, filingStatus) ==
  IF x < Threshold1 THEN Rate1 * x
  ELSE IF x < Threshold2 THEN Base2 * MoneyScale + Rate2 * (x - Threshold1)
  ELSE IF x < Threshold3 THEN Base3 * MoneyScale + Rate3 * (x - Threshold2)
  ELSE Base4 * MoneyScale + Rate4 * (x - Threshold3)

computeNYCResidentTaxRateSchedule_BaseTypo(x, filingStatus) ==
  IF x <= Threshold1 THEN Rate1 * x
  ELSE IF x <= Threshold2 THEN Base2 * MoneyScale + Rate2 * (x - Threshold1)
  ELSE IF x <= Threshold3 THEN 585 * MoneyScale + Rate3 * (x - Threshold2)
  ELSE Base4 * MoneyScale + Rate4 * (x - Threshold3)

\* x in whole dollars; the result in 1/MoneyScale dollars.  filingStatus is
\* accepted and ignored, as in the source.
computeNYCResidentTaxRateSchedule(x, filingStatus) ==
  IF x <= Threshold1 THEN Rate1 * x
  ELSE IF x <= Threshold2 THEN Base2 * MoneyScale + Rate2 * (x - Threshold1)
  ELSE IF x <= Threshold3 THEN Base3 * MoneyScale + Rate3 * (x - Threshold2)
  ELSE Base4 * MoneyScale + Rate4 * (x - Threshold3)

computeNYCIncomeTax(params) ==
  LET nycTaxableIncome == clamp0(params.income - params.nyStandardDeduction)
      nycTax == computeNYCResidentTaxRateSchedule(nycTaxableIncome, params.filingStatus)
  IN  [nycTaxableIncome |-> nycTaxableIncome, nycTax |-> nycTax]

DEFAULTS == [filingStatus |-> "single", nyStandardDeduction |-> nyStandardDeduction]

TaxParams(inc) ==
  [income |-> inc, filingStatus |-> DEFAULTS.filingStatus,
   nyStandardDeduction |-> DEFAULTS.nyStandardDeduction]

(***************************************************************************)
(* The static dataset: CATEGORIES of the breadcrumb page and of the legend *)
(* page.  Weights are in 1/WeightScale of the source's literals.           *)
(***************************************************************************)
CATEGORIES ==
  <<
    [id |-> "education", label |-> "Education", weight |-> 29710,
     children |-> <<
       [label |-> "K-12 schools & instruction", weight |-> 16600],
       [label |-> "School operations", weight |-> 5400],
       [label |-> "Early childhood birth-to-five services", weight |-> 2200],
       [label |-> "Superintendents & field offices", weight |-> 347],
       [label |-> "Central administrative offices", weight |-> 176],
       [label |-> "Employee benefits & pension", weight |-> 8500],
       [label |-> "Debt payments", weight |-> 3800],
       [label |-> "State-mandated payments to charter schools", weight |-> 3400],
       [label |-> "Non-public & contract schools (special education)", weight |-> 2300]
     >>],
    [id |-> "human_services", label |-> "Human Services", weight |-> 16370,
     children |-> <<
       [label |-> "Department of Social Services", weight |-> 10170],
       [label |-> "Department of Homeless Services", weight |-> 3020],
       [label |-> "Administration for Children's Services", weight |-> 2670],
       [label |-> "Department for the Aging", weight |-> 510]
     >>],
    [id |-> "miscellaneous", label |-> "Miscellaneous", weight |-> 13180,
     children |-> <<
       [label |-> "Personal service", weight |-> 10060656],
       [label |-> "Other than personal service", weight |-> 4268150]
     >>],
    [id |-> "public_safety", label |-> "Public Safety & Judicial", weight |-> 10110,
     children |-> <<
       [label |-> "Police Department (NYPD)", weight |-> 5330],
       [label |-> "Fire Department (FDNY)", weight |-> 2230],
       [label |-> "Department of Correction", weight |-> 1030],
       [label |-> "Office of Criminal Justice", weight |-> 740],
       [label |-> "District Attorneys", weight |-> 510],
       [label |-> "Department of Probation", weight |-> 100],
       [label |-> "Emergency Management", weight |-> 70],
       [label |-> "Taxi & Limousine Commission", weight |-> 50],
       [label |-> "Special Narcotics Prosecutor", weight |-> 30],
       [label |-> "Civilian Complaint Review Board", weight |-> 20]
     >>],
    [id |-> "pensions", label |-> "City Employee Pensions", weight |-> 8900,
     children |-> <<
       [label |-> "Salary and wages", weight |-> 10233669],
       [label |-> "Other fringe benefits", weight |-> 40257],
       [label |-> "Other than personal service", weight |-> 2157]
     >>],
    [id |-> "general_government", label |-> "General Government", weight |-> 5480,
     children |-> <<
       [label |-> "Department of Citywide Administrative Services", weight |-> 1510],
       [label |-> "Department of Youth and Community Development", weight |-> 1290],
       [label |-> "Department of Information Technology & Telecommunications", weight |-> 690],
       [label |-> "Department of Finance", weight |-> 320],
       [label |-> "Department of Small Business Services", weight |-> 240],
       [label |-> "Law Department", weight |-> 240],
       [label |-> "Mayoralty", weight |-> 170],
       [label |-> "Department of Design and Construction", weight |-> 140],
       [label |-> "Board of Elections", weight |-> 120],
       [label |-> "Office of the Comptroller", weight |-> 110],
       [label |-> "Financial Information Services Agency", weight |-> 100],
       [label |-> "City Council", weight |-> 100],
       [label |-> "Campaign Finance Board", weight |-> 90],
       [label |-> "Office of Administrative Trials and Hearings", weight |-> 70],
       [label |-> "Department of Consumer Affairs", weight |-> 60],
       [label |-> "Department of City Planning", weight |-> 50],
       [label |-> "Department of Investigation", weight |-> 50],
       [label |-> "Other administrative agencies", weight |-> 100],
       [label |-> "Borough Presidents", weight |-> 30],
       [label |-> "Community Boards", weight |-> 20]
     >>],
    [id |-> "debt_service", label |-> "Debt Service", weight |-> 4140,
     children |-> <<
       [label |-> "City funds", weight |-> 4766171],
       [label |-> "Federal - other", weight |-> 102386],
       [label |-> "State", weight |-> 4657],
       [label |-> "Other categorical", weight |-> 1241]
     >>],
    [id |-> "health", label |-> "Health", weight |-> 3490,
     children |-> <<
       [label |-> "Dept. of Health & Mental Hygiene", weight |-> 2070],
       [label |-> "NYC Health + Hospitals", weight |-> 1420]
     >>],
    [id |-> "environmental", label |-> "Environmental Protection", weight |-> 3180,
     children |-> <<
       [label |-> "Department of Environmental Protection", weight |-> 2950],
       [label |-> "Department of Sanitation", weight |-> 230]
     >>],
    [id |-> "housing", label |-> "Housing", weight |-> 1560,
     children |-> <<
       [label |-> "New York City Housing Authority", weight |-> 920],
       [label |-> "Department of Housing Preservation and Development", weight |-> 640]
     >>],
    [id |-> "cuny", label |-> "CUNY Community Colleges", weight |-> 1320,
     children |-> <<
       [label |-> "CUNY Community Colleges", weight |-> 1220],
       [label |-> "CUNY Construction Fund", weight |-> 100]
     >>],
    [id |-> "transportation", label |-> "Transportation Services", weight |-> 1280,
     children |-> <<
       [label |-> "Department of Transportation", weight |-> 930],
       [label |-> "Department of Records and Information Services", weight |-> 350]
     >>],
    [id |-> "parks_cultural", label |-> "Parks, Recreation & Cultural Affairs", weight |-> 840,
     children |-> <<
       [label |-> "Department of Parks and Recreation", weight |-> 480],
       [label |-> "Department of Cultural Affairs", weight |-> 360]
     >>],
    [id |-> "libraries", label |-> "Libraries", weight |-> 440,
     children |-> <<
       [label |-> "New York Public Library", weight |-> 190598],
       [label |-> "Queens Public Library", weight |-> 149900],
       [label |-> "Brooklyn Public Library", weight |-> 144775],
       [label |-> "NYPL - Research Libraries", weight |-> 37867]
     >>]
  >>

CATEGORIES_V2 ==
  <<
    [id |-> "education", label |-> "Education", weight |-> 29710,
     children |-> <<
       [label |-> "K-12 schools & instruction", weight |-> 16600],
       [label |-> "School operations", weight |-> 5400],
       [label |-> "Early childhood birth-to-five services", weight |-> 2200],
       [label |-> "Superintendents & field offices", weight |-> 347],
       [label |-> "Central administrative offices", weight |-> 176],
       [label |-> "Employee benefits & pension", weight |-> 8500],
       [label |-> "Debt payments", weight |-> 3800],
       [label |-> "State-mandated payments to charter schools", weight |-> 3400],
       [label |-> "Non-public & contract schools (special education)", weight |-> 2300]
     >>],
    [id |-> "human_services", label |-> "Human Services", weight |-> 16370,
     children |-> <<
       [label |-> "Department of Social Services", weight |-> 10170],
       [label |-> "Department of Homeless Services", weight |-> 3020],
       [label |-> "Administration for Children's Services", weight |-> 2670],
       [label |-> "Department for the Aging", weight |-> 510]
     >>],
    [id |-> "misc", label |-> "Miscellaneous", weight |-> 13180,
     children |-> <<
       [label |-> "General city operations", weight |-> 60000],
       [label |-> "Other central expenses", weight |-> 40000]
     >>],
    [id |-> "public_safety", label |-> "Public Safety & Judicial", weight |-> 10110,
     children |-> <<
       [label |-> "Police Department (NYPD)", weight |-> 5330],
       [label |-> "Fire Department (FDNY)", weight |-> 2230],
       [label |-> "Department of Correction", weight |-> 1030],
       [label |-> "Office of Criminal Justice", weight |-> 740],
       [label |-> "District Attorneys", weight |-> 780]
     >>],
    [id |-> "pensions", label |-> "City Employee Pensions", weight |-> 8900,
     children |-> <<
       [label |-> "Pension obligations", weight |-> 100000]
     >>],
    [id |-> "general", label |-> "General Government", weight |-> 5480,
     children |-> <<
       [label |-> "Citywide administration", weight |-> 100000]
     >>],
    [id |-> "debt", label |-> "Debt Service", weight |-> 4140,
     children |-> <<
       [label |-> "Debt service payments", weight |-> 100000]
     >>],
    [id |-> "health", label |-> "Health", weight |-> 3490,
     children |-> <<
       [label |-> "Dept. of Health & Mental Hygiene", weight |-> 2070],
       [label |-> "NYC Health + Hospitals", weight |-> 1420]
     >>],
    [id |-> "env", label |-> "Environmental Protection", weight |-> 3180,
     children |-> <<
       [label |-> "Department of Environmental Protection", weight |-> 2950],
       [label |-> "Department of Sanitation", weight |-> 230]
     >>],
    [id |-> "housing", label |-> "Housing", weight |-> 1560,
     children |-> <<
       [label |-> "Department of Housing Preservation and Development", weight |-> 1000]
     >>],
    [id |-> "cuny", label |-> "CUNY Community Colleges", weight |-> 1320,
     children |-> <<
       [label |-> "CUNY Community Colleges", weight |-> 100000]
     >>],
    [id |-> "transport", label |-> "Transportation Services", weight |-> 1280,
     children |-> <<
       [label |-> "Department of Transportation", weight |-> 1000]
     >>],
    [id |-> "parks", label |-> "Parks, Recreation & Cultural Affairs", weight |-> 840,
     children |-> <<
       [label |-> "Department of Parks and Recreation", weight |-> 480],
       [label |-> "Department of Cultural Affairs", weight |-> 360]
     >>],
    [id |-> "libraries", label |-> "Libraries", weight |-> 440,
     children |-> <<
       [label |-> "New York Public Library", weight |-> 190],
       [label |-> "Queens Public Library", weight |-> 150],
       [label |-> "Brooklyn Public Library", weight |-> 140],
       [label |-> "NYPL - Research Libraries", weight |-> 40]
     >>]
  >>
(***************************************************************************)
(* AllocationTree.                                                         *)
(***************************************************************************)
RECURSIVE SumFieldTo(_, _, _)
\* the sum of field key over the first n items
SumFieldTo(items, key, n) ==
  IF n = 0 THEN 0 ELSE SumFieldTo(items, key, n - 1) + items[n][key]

SumField(items, key) == SumFieldTo(items, key, Len(items))

\* items.reduce((a, b) => a + b.weight, 0)
SumWeights(items) == SumField(items, "weight")

\* { ...it, key: v }
With(it, key, v) == (key :> v) @@ it

RECURSIVE ArrayTo(_, _)
\* the first n elements of f, each computed once
ArrayTo(f, n) == IF n = 0 THEN <<>> ELSE Append(ArrayTo(f, n - 1), f[n])

\* the array items.map(...) returns: every element is computed once, when the
\* array is built
Array(f) == ArrayTo(f, Len(f))

\* Mutants: the fraction taken of the global pool of top-level weights
\* instead of the item's own sibling group; and a fallback of 1 instead of 0
\* for a group whose weights sum to 0.
normalizeWeights_GlobalPool(items) ==
  LET sum == SumWeights(items)
      pool == SumWeights(CATEGORIES)
  IN  [sum |-> sum,
       items |-> Array([i \in 1..Len(items) |->
                    With(items[i], "norm",
                         IF sum # 0 THEN MulDiv(items[i].weight, NormScale, pool)
                         ELSE 0)])]

normalizeWeights_FallbackOne(items) ==
  LET sum == SumWeights(items)
  IN  [sum |-> sum,
       items |-> Array([i \in 1..Len(items) |->
                    With(items[i], "norm",
                         IF sum # 0 THEN MulDiv(items[i].weight, NormScale, sum)
                         ELSE NormScale)])]

\* norm: sum ? it.weight / sum : 0
normalizeWeights(items) ==
  LET sum == SumWeights(items)
  IN  [sum |-> sum,
       items |-> Array([i \in 1..Len(items) |->
                    With(items[i], "norm",
                         IF sum # 0 THEN MulDiv(items[i].weight, NormScale, sum)
                         ELSE 0)])]

\* normalizeWeights(group).items.map((c) => ({ ...c, dollars: parentDollars * c.norm }))
Allocate(group, parentDollars) ==
  LET items == normalizeWeights(group).items
  IN  Array([i \in 1..Len(items) |->
               With(items[i], "dollars", MulDiv(parentDollars, items[i].norm, NormScale))])

(***************************************************************************)
(* RadialLayoutEngine.                                                     *)
(***************************************************************************)
RING_PADDING == 10

DefaultStartAngle == -90 * AngleScale

RECURSIVE SumValuesTo(_, _)
SumValuesTo(items, n) ==
  IF n = 0 THEN 0 ELSE SumValuesTo(items, n - 1) + Max(0, items[n].value)

\* items.reduce((a, b) => a + Math.max(0, b.value), 0)
SumValues(items) == SumValuesTo(items, Len(items))

\* const total = Math.max(1, ...): 1 is one dollar
DonutTotal(items) == Max(MoneyScale, SumValues(items))

\* const angle = (value / total) * 360
SliceAngle(it, total) == MulDiv(Max(0, it.value), 360 * AngleScale, total)

RECURSIVE DonutAcc(_, _, _)
\* acc before slice i: the sum of the angles of the slices before it
DonutAcc(items, total, i) ==
  IF i <= 1 THEN 0
  ELSE DonutAcc(items, total, i - 1) + SliceAngle(items[i - 1], total)

\* Math.cos((Math.PI / 180) * midAngle) >= 0, for -90 <= midAngle <= 450
\* degrees.  Between the quarter turns the sign is that of the cosine.  At a
\* quarter turn the cosine is 0 and the sign is that of the double the source
\* computes: cos(-1.5707963267948966) = 6.1e-17 at -90, cos(1.5707963267948966)
\* = 6.1e-17 at 90, cos(4.71238898038469) = -1.8e-16 at 270 and
\* cos(7.853981633974483) = 3.1e-16 at 450.
CosNonNegative(midAngle) ==
  IF midAngle = 270 * AngleScale THEN FALSE
  ELSE \/ -90 * AngleScale <= midAngle /\ midAngle <= 90 * AngleScale
       \/ 270 * AngleScale < midAngle /\ midAngle <= 450 * AngleScale

\* lengths are in half pixels, so that size / 2 and thickness / 2 are exact
PixelScale == 2

\* the point (cx + r * Math.cos(radians), cy + r * Math.sin(radians)), known by
\* its centre, its radius and its angle
polarToCartesian(cx, cy, r, angleDeg) ==
  [cx |-> cx, cy |-> cy, r |-> r, angle |-> angleDeg]

\* const ringOuter = size / 2 - RING_PADDING; const ringMid = ringOuter - thickness / 2
DonutRingMid(size, thickness) ==
  ((size * PixelScale) \div 2 - RING_PADDING * PixelScale) - (thickness * PixelScale) \div 2

\* One DonutSlice per item, in input order.  start, angle and midAngle are the
\* locals of the source's loop body, kept for the claims about them.
computeDonutSlices(items, size, thickness, startAngle) ==
  LET total == DonutTotal(items)
  IN  [i \in 1..Len(items) |->
         LET it       == items[i]
             value    == Max(0, it.value)
             angle    == SliceAngle(it, total)
             start    == startAngle + DonutAcc(items, total, i)
             midAngle == start + angle \div 2
         IN  [label |-> it.label,
              value |-> it.value,
              pct |-> MulDiv(value, 100 * AngleScale, total),
              start |-> start,
              angle |-> angle,
              midAngle |-> midAngle,
              mid |-> polarToCartesian((size * PixelScale) \div 2, (size * PixelScale) \div 2,
                                       DonutRingMid(size, thickness), midAngle),
              isRight |-> CosNonNegative(midAngle)]]

(***************************************************************************)
(* RingWithLabelRails: the two rails.                                      *)
(***************************************************************************)
\* The order of midY = cy + ringMid * Math.sin(radians), for -90 <= midAngle <=
\* 270 degrees: the sine of midAngle is the sine of 180 - midAngle, and between
\* -90 and 90 degrees the sine grows with the angle.
MidYRank(midAngle) ==
  IF midAngle <= 90 * AngleScale THEN midAngle ELSE 180 * AngleScale - midAngle

IsLeftSlice(s) == ~s.isRight

IsRightSlice(s) == s.isRight

\* where Array.prototype.sort, which is stable, puts s among the sorted ones:
\* after those whose midY is not greater
SortedInsert(sorted, s) ==
  LET k == Cardinality({j \in 1..Len(sorted) :
                          MidYRank(sorted[j].midAngle) <= MidYRank(s.midAngle)})
  IN  SubSeq(sorted, 1, k) \o <<s>> \o SubSeq(sorted, k + 1, Len(sorted))

RECURSIVE SortByMidYTo(_, _)
SortByMidYTo(ss, n) ==
  IF n = 0 THEN <<>> ELSE SortedInsert(SortByMidYTo(ss, n - 1), ss[n])

\* .sort((a, b) => a.midY - b.midY)
SortByMidY(ss) == SortByMidYTo(ss, Len(ss))

\* The mutant's left rail keeps the order of the slices.
leftItems_Unsorted(ss) == SelectSeq(ss, IsLeftSlice)

\* slices.filter((s) => !s.isRight).sort((a, b) => a.midY - b.midY)
leftItems(ss) == SortByMidY(SelectSeq(ss, IsLeftSlice))

\* slices.filter((s) => s.isRight).sort((a, b) => a.midY - b.midY)
rightItems(ss) == SortByMidY(SelectSeq(ss, IsRightSlice))

(***************************************************************************)
(* RingWithLabelRails: the connectors.  A rectangle is what                *)
(* getBoundingClientRect returns: left, top, width, height, in half pixels.*)
(***************************************************************************)
RectRight(rect) == rect.left + rect.width

\* the callback of slices.map in measureLines, for a slice whose label element
\* is present: the connector from the label's box to the slice's midpoint
measureLine(slice, labelRect, containerRect, donutRect) ==
  LET isLeft == labelRect.left < containerRect.left + containerRect.width \div 2
  IN  [label |-> slice.label,
       x1 |-> IF isLeft THEN RectRight(labelRect) - containerRect.left
              ELSE labelRect.left - containerRect.left,
       y1 |-> labelRect.top - containerRect.top + labelRect.height \div 2,
       x2 |-> donutRect.left - containerRect.left + slice.midX,
       y2 |-> donutRect.top - containerRect.top + slice.midY,
       isLeft |-> isLeft]

ElbowOffset == 16

\* The mutant's elbow is always to the right of the anchor.
connectorPoints_ElbowRight(line) ==
  LET elbowX == line.x1 + ElbowOffset * PixelScale
  IN  <<[x |-> line.x1, y |-> line.y1],
        [x |-> elbowX, y |-> line.y1],
        [x |-> line.x2, y |-> line.y2]>>

\* const elbowX = line.isLeft ? line.x1 + 16 : line.x1 - 16;
\* points = x1,y1 elbowX,y1 x2,y2
connectorPoints(line) ==
  LET elbowX == IF line.isLeft THEN line.x1 + ElbowOffset * PixelScale
                ELSE line.x1 - ElbowOffset * PixelScale
  IN  <<[x |-> line.x1, y |-> line.y1],
        [x |-> elbowX, y |-> line.y1],
        [x |-> line.x2, y |-> line.y2]>>

(***************************************************************************)
(* The style sheet of the page, as far as it places the ring's container,  *)
(* the chart and the labels horizontally in a window of width w (pixels).  *)
(***************************************************************************)
\* @media (max-width: 1100px): one column, the rails above and below the chart
LayoutBreak == 1100

ThreeColumns(w) == w > LayoutBreak

\* .grid padding 18px, .stageCard border 1px and padding 16px
ContainerInset == 35

\* .ringLayout gap: 14px
RailGap == 14

\* .railItem max-width: 320px
RailItemMaxWidth == 320

\* the width of the chart: the svg's, size
ChartWidth == 360

containerWidth(w) == w - 2 * ContainerInset

\* grid-template-columns: minmax(200px, 1fr) auto minmax(200px, 1fr), or 1fr
railWidth(w) ==
  IF ThreeColumns(w) THEN Max(200, (containerWidth(w) - ChartWidth - 2 * RailGap) \div 2)
  ELSE containerWidth(w)

\* containerRef's rectangle
containerRectAt(w, top, height) ==
  [left |-> ContainerInset * PixelScale, top |-> top,
   width |-> containerWidth(w) * PixelScale, height |-> height]

\* donutRef's rectangle: the middle column, or the one column
donutRectAt(w, top) ==
  [left |-> (ContainerInset + IF ThreeColumns(w) THEN railWidth(w) + RailGap ELSE 0)
              * PixelScale,
   top |-> top,
   width |-> (IF ThreeColumns(w) THEN ChartWidth ELSE containerWidth(w)) * PixelScale,
   height |-> ChartWidth * PixelScale]

\* .rail { padding-right: 2px }
RailPadding == 2

\* the rectangle of a label: width 100% of the rail's content box up to
\* max-width; .rail.left aligns its items to the end of the first column,
\* .rail.right to the start of the third; in one column both begin at the
\* container's left edge
labelRectAt(w, isRight, top, height) ==
  LET content == railWidth(w) - RailPadding
      width == IF RailItemMaxWidth < content THEN RailItemMaxWidth ELSE content
      left == IF ~ThreeColumns(w) THEN ContainerInset
              ELSE IF isRight
                   THEN ContainerInset + railWidth(w) + RailGap + ChartWidth + RailGap
                   ELSE ContainerInset + content - width
  IN  [left |-> left * PixelScale, top |-> top,
       width |-> width * PixelScale, height |-> height]

(***************************************************************************)
(* Sunburst, for its one ring (ringIndex 0) in RingWithLabelRails.         *)
(***************************************************************************)
RECURSIVE SunburstSumTo(_, _)
SunburstSumTo(items, n) ==
  IF n = 0 THEN 0 ELSE SunburstSumTo(items, n - 1) + items[n].value

\* const total = Math.max(1, ring.items.reduce((a, b) => a + b.value, 0))
SunburstTotal(items) == Max(MoneyScale, SunburstSumTo(items, Len(items)))

\* The mutant's label point lies on the outer edge of the ring.
SunburstRingMid_Outer(size, thickness) ==
  (size * PixelScale) \div 2 - RING_PADDING * PixelScale

\* ringOuter = totalRadius = size / 2 - RING_PADDING; ringInner = ringOuter -
\* ring.thickness; const ringMid = (ringOuter + ringInner) / 2
SunburstRingMid(size, thickness) ==
  LET ringOuter == (size * PixelScale) \div 2 - RING_PADDING * PixelScale
      ringInner == ringOuter - thickness * PixelScale
  IN  (ringOuter + ringInner) \div 2

RECURSIVE SunburstAcc(_, _, _)
\* acc before slice i
SunburstAcc(items, total, i) ==
  IF i <= 1 THEN 0
  ELSE SunburstAcc(items, total, i - 1)
         + MulDiv(Max(0, items[i - 1].value), 360 * AngleScale, total)

\* what ring.items.map computes for each drawn slice: start, end, mid, pct and
\* labelPoint, the point at mid on the middle radius of the ring
Sunburst(items, size, thickness, startAngle) ==
  LET total == SunburstTotal(items)
  IN  [i \in 1..Len(items) |->
         LET value == Max(0, items[i].value)
             angle == MulDiv(value, 360 * AngleScale, total)
             start == startAngle + SunburstAcc(items, total, i)
             mid   == start + angle \div 2
         IN  [label |-> items[i].label,
              total |-> total,
              start |-> start,
              end |-> start + angle,
              mid |-> mid,
              pct |-> MulDiv(value, 100 * AngleScale, total),
              labelPoint |-> polarToCartesian((size * PixelScale) \div 2,
                                              (size * PixelScale) \div 2,
                                              SunburstRingMid(size, thickness), mid)]]

(***************************************************************************)
(* Page: the derived values (useMemo) of the current state.                *)
(***************************************************************************)
Categories == IF variant = "breadcrumb" THEN CATEGORIES ELSE CATEGORIES_V2

nycTax == computeNYCIncomeTax(TaxParams(income)).nycTax

\* normalizeWeights(CATEGORIES).items.map((c) => ({ ...c, dollars: nycTax * c.norm }))
categoryAlloc == Allocate(Categories, nycTax)

\* the position in seq of the first element whose field key is v, 0 for none:
\* seq.find((c) => c[key] === v) ?? null
FindIndex(seq, key, v) ==
  LET hits == {i \in 1..Len(seq) : seq[i][key] = v}
  IN  IF hits = {} THEN 0 ELSE CHOOSE i \in hits : \A j \in hits : i <= j

\* categoryAlloc.find((c) => c.id === selectedCategoryId): categoryAlloc keeps
\* the order and the ids of CATEGORIES, so the position is found there
selectedCategoryIndex == FindIndex(Categories, "id", selectedCategoryId)

HasSelectedCategory == selectedCategoryIndex # 0

\* read only where HasSelectedCategory
selectedCategory == categoryAlloc[selectedCategoryIndex]

\* The mutant takes the subcategories' dollars of the whole tax.
selectedSubcats_OfTax ==
  IF ~HasSelectedCategory THEN <<>>
  ELSE LET cat == selectedCategory
       IN  IF Len(cat.children) = 0 THEN <<>>
           ELSE Allocate(cat.children, nycTax)

\* null (breadcrumb page) and [] (legend page) are both the empty list: every
\* reader takes (selectedSubcats ?? []).  The legend page's per-agency PS/OTPS
\* children do not change the weights normalised here.
selectedSubcats ==
  IF ~HasSelectedCategory THEN <<>>
  ELSE LET cat == selectedCategory
       IN  IF Len(cat.children) = 0 THEN <<>>
           ELSE Allocate(cat.children, cat.dollars)

\* the children of the selected category, <<>> for none
selectedChildren ==
  IF HasSelectedCategory THEN Categories[selectedCategoryIndex].children ELSE <<>>

\* The mutant falls back to the first subcategory.
selectedSubcategory_FirstChild(subcats, label) ==
  IF label = NULL THEN 0
  ELSE IF FindIndex(subcats, "label", label) = 0 THEN 1
  ELSE FindIndex(subcats, "label", label)

\* if (!selectedSubcategoryLabel || !selectedSubcats?.length) return null;
\* return selectedSubcats.find((sc) => sc.label === selectedSubcategoryLabel) ?? null
\* (the legend page: selectedSubcats.find(...) ?? null, on a list that is []
\* for no category and no children), as a position in subcats, 0 for null
selectedSubcategory(subcats, label) ==
  IF label = NULL \/ Len(subcats) = 0 THEN 0
  ELSE FindIndex(subcats, "label", label)

\* the selected subcategory of the page, as a position in selectedSubcats
\* (which keeps the order and labels of the children), 0 for null
selectedSubcategoryIndex ==
  IF selectedSubcategoryLabel = NULL THEN 0
  ELSE FindIndex(selectedChildren, "label", selectedSubcategoryLabel)

hasIncome == income > 0

\* categoryDonutItems / subcatDonutItems (categoryItems / subItems)
categoryDonutItems ==
  [i \in 1..Len(categoryAlloc) |->
     [label |-> categoryAlloc[i].label, value |-> categoryAlloc[i].dollars]]

subcatDonutItems ==
  [i \in 1..Len(selectedSubcats) |->
     [label |-> selectedSubcats[i].label, value |-> selectedSubcats[i].dollars]]

Labels(items) == {items[i].label : i \in 1..Len(items)}

\* what the page renders
CategoryRingShown ==
  IF variant = "breadcrumb"
  THEN unlockedLevel # 0 /\ hasIncome /\ unlockedLevel >= 1 /\ unlockedLevel < 3
  ELSE hasIncome /\ unlockedLevel >= 1 /\ ~HasSelectedCategory

SubcategoryRingShown ==
  IF variant = "breadcrumb"
  THEN unlockedLevel # 0 /\ hasIncome /\ unlockedLevel >= 3 /\ HasSelectedCategory
  ELSE hasIncome /\ HasSelectedCategory

\* {unlockedLevel >= 1 && (<div className="card"> NYC INCOME TAX ...)}
TaxCardShown == unlockedLevel >= 1

(***************************************************************************)
(* RingWithLabelRails.  The breadcrumb page renders its two rings at       *)
(* different places, so each is a component of its own, with its own       *)
(* hoveredLabel and lines; the legend page draws a Donut and mounts none.  *)
(* The page builds the ring's items anew on every render, so the ring's    *)
(* effect on [slices] runs again after every commit of the page.  The      *)
(* geometry of a connector is read from the DOM and is left out: a         *)
(* connector is known by its label.                                        *)
(***************************************************************************)
\* the ring the page renders
RingShown ==
  IF variant # "breadcrumb" THEN "none"
  ELSE IF CategoryRingShown THEN "category"
  ELSE IF SubcategoryRingShown THEN "subcategory"
  ELSE "none"

\* the items the page gives the rendered ring: categoryDonutItems or
\* subcatDonutItems, which keep the order and the labels of CATEGORIES and of
\* the selected category's children
ShownItems ==
  IF RingShown = "category" THEN Categories
  ELSE IF RingShown = "subcategory" THEN selectedChildren
  ELSE <<>>

\* useMemo(() => computeDonutSlices(items, size, thickness)): one slice per
\* item, in the items' order, each known by its label and by the income v that
\* its value, the dollars allocated to it, was computed from
RingSlices(items, v) ==
  [i \in 1..Len(items) |-> [label |-> items[i].label, income |-> v]]

\* labelRefs.current after a commit: the labels whose rail button is rendered,
\* the left and the right rail together holding one button per slice
labelRefs == Labels(slices)

\* the widths of the window
Viewports == {1280, 800}

InitialViewport == 1280

RECURSIVE measureLinesTo(_, _, _, _)
\* slices.map(...).filter((line) => line !== null) over the first n slices: a
\* slice whose label has no element is mapped to null and filtered out.  The
\* endpoints are computed from the rectangles read at the window's width w;
\* a connector is known by its label and the width it was measured at.
measureLinesTo(ss, refs, n, w) ==
  IF n = 0 THEN <<>>
  ELSE LET rest == measureLinesTo(ss, refs, n - 1, w)
       IN  IF ss[n].label \in refs
           THEN Append(rest, [label |-> ss[n].label, at |-> w])
           ELSE rest

\* The mutant gives up on the whole layout when one label element is absent.
measureLines_AllOrNothing(ss, refs, hasElements, cur, w) ==
  IF ~hasElements THEN cur
  ELSE IF Labels(ss) \subseteq refs THEN measureLinesTo(ss, refs, Len(ss), w)
  ELSE <<>>

\* measureLines: the value of lines after it.  Without the container or the
\* donut element it returns before setLines.
measureLines(ss, refs, hasElements, cur, w) ==
  IF ~hasElements THEN cur ELSE measureLinesTo(ss, refs, Len(ss), w)

\* window.addEventListener("resize", measureLines)
addEventListener(n) == n + 1

\* The mutant's cleanup leaves the listener registered.
removeEventListener_Leak(n) == n

\* window.removeEventListener("resize", measureLines)
removeEventListener(n) == IF n > 0 THEN n - 1 ELSE n

NoRingHist == [op |-> "none", measured |-> FALSE, label |-> NULL]

\* The mutant's effect has no dependencies: it runs when the ring is mounted
\* only, and the listener it registered then stays.
RingCommit_EffectOnMount ==
  LET rendered == <<income, unlockedLevel, selectedCategoryId, selectedSubcategoryLabel>>'
                    # <<income, unlockedLevel, selectedCategoryId, selectedSubcategoryLabel>>
      shown == RingShown'
      kept == shown = ringMounted
      released == IF ringMounted # "none" /\ ~kept THEN removeEventListener(listeners)
                  ELSE listeners
  IN  IF ~rendered
      THEN /\ UNCHANGED <<viewport, ringMounted, slices, hoveredLabel, lines, listeners,
                          closure, rerender>>
           /\ ringHist' = NoRingHist
      ELSE /\ UNCHANGED viewport
           /\ ringMounted' = shown
           /\ \E items \in {ShownItems'} : slices' = RingSlices(items, income')
           /\ hoveredLabel' = IF kept THEN hoveredLabel ELSE NULL
           /\ listeners' = IF shown # "none" /\ ~kept THEN addEventListener(released)
                           ELSE released
           /\ closure' = IF shown = "none" THEN <<>>
                         ELSE IF kept THEN closure ELSE slices'
           /\ lines' = IF shown = "none" THEN <<>>
                       ELSE IF kept THEN lines
                       ELSE measureLines(slices', labelRefs', TRUE, <<>>, viewport)
           /\ rerender' = (shown # "none" /\ ~kept)
           /\ ringHist' = [op |-> IF shown = "none"
                                  THEN IF ringMounted = "none" THEN "none" ELSE "unmount"
                                  ELSE IF kept THEN "update" ELSE "mount",
                           measured |-> shown # "none" /\ ~kept,
                           label |-> NULL]

\* What a commit of the page does to the ring.  A handler that changes no
\* state renders nothing.  Otherwise the ring that is no longer rendered is
\* unmounted (its effect's cleanup runs, its state is gone), the ring that is
\* rendered is mounted or given new items, and its effect runs after the
\* commit: the cleanup of the previous run, measureLines over the slices and
\* the label elements of this commit, whose setLines schedules a render of
\* the ring, and the registration of this measureLines as the listener.
RingCommit ==
  LET rendered == <<income, unlockedLevel, selectedCategoryId, selectedSubcategoryLabel>>'
                    # <<income, unlockedLevel, selectedCategoryId, selectedSubcategoryLabel>>
      shown == RingShown'
      kept == shown = ringMounted
      released == IF ringMounted # "none" THEN removeEventListener(listeners)
                  ELSE listeners
  IN  IF ~rendered
      THEN /\ UNCHANGED <<viewport, ringMounted, slices, hoveredLabel, lines, listeners,
                          closure, rerender>>
           /\ ringHist' = NoRingHist
      ELSE /\ UNCHANGED viewport
           /\ ringMounted' = shown
           /\ \E items \in {ShownItems'} : slices' = RingSlices(items, income')
           /\ hoveredLabel' = IF kept THEN hoveredLabel ELSE NULL
           /\ listeners' = IF shown # "none" THEN addEventListener(released)
                           ELSE released
           /\ closure' = IF shown # "none" THEN slices' ELSE <<>>
           /\ lines' = IF shown = "none" THEN <<>>
                       ELSE measureLines(slices', labelRefs', TRUE,
                                         IF kept THEN lines ELSE <<>>, viewport)
           /\ rerender' = (shown # "none")
           /\ ringHist' = [op |-> IF shown = "none"
                                  THEN IF ringMounted = "none" THEN "none" ELSE "unmount"
                                  ELSE IF kept THEN "update" ELSE "mount",
                           measured |-> shown # "none",
                           label |-> NULL]

(***************************************************************************)
(* Page: the handlers.  A handler's setState calls are batched into one    *)
(* commit.  The breadcrumb page's effect on [selectedCategoryId] runs      *)
(* after the commit that changed selectedCategoryId and before the next    *)
(* event is handled.                                                       *)
(***************************************************************************)
BracketBounds == {0, Threshold1, Threshold2, Threshold3}

\* the incomes typed: 0, 50,000, and the standard deduction and the dollars
\* just above it, where the tax is 0 and a few cents
PageIncomes == {0, 50000} \cup {nyStandardDeduction + d : d \in 0..IncomeSpread}

EffectPending == variant = "breadcrumb" /\ effectCategoryId # selectedCategoryId

\* an effect of the page or a render of the ring is due before the next event
Busy == EffectPending \/ rerender

Handled(op) ==
  /\ hist' = [op |-> op, unlockedLevel |-> unlockedLevel,
              selectedCategoryId |-> selectedCategoryId,
              selectedSubcategoryLabel |-> selectedSubcategoryLabel]
  /\ UNCHANGED <<variant, effectCategoryId, call, ret>>
  /\ RingCommit

\* The mutant sets the level instead of raising it to it.
unlockTo_Set(cur, lvl) == lvl

\* setUnlockedLevel((cur) => Math.max(cur, lvl))
unlockTo(cur, lvl) == Max(cur, lvl)

\* The mutant's edit of the income unlocks the tax card.
IncomeChange_Unlocks(v) ==
  /\ ~Busy
  /\ income' = v
  /\ unlockedLevel' = Max(unlockedLevel, 1)
  /\ UNCHANGED <<selectedCategoryId, selectedSubcategoryLabel>>
  /\ Handled("IncomeChange")

\* onChange of the income input: Number(value.replace(/[^\d]/g, "")) || 0
IncomeChange(v) ==
  /\ ~Busy
  /\ income' = v
  /\ UNCHANGED <<unlockedLevel, selectedCategoryId, selectedSubcategoryLabel>>
  /\ Handled("IncomeChange")

\* onClick of the income card
IncomeCardClick ==
  /\ ~Busy
  /\ unlockedLevel' = IF variant = "breadcrumb" THEN unlockTo(unlockedLevel, 2) ELSE 2
  /\ UNCHANGED <<income, selectedCategoryId, selectedSubcategoryLabel>>
  /\ Handled("IncomeCardClick")

\* The mutant's reset leaves the category selected.
IncomeCrumb_KeepsCategory ==
  /\ variant = "breadcrumb" /\ ~Busy
  /\ unlockedLevel' = 0
  /\ selectedSubcategoryLabel' = NULL
  /\ UNCHANGED <<income, selectedCategoryId>>
  /\ Handled("IncomeCrumb")

\* onClick of the Income breadcrumb
IncomeCrumb ==
  /\ variant = "breadcrumb" /\ ~Busy
  /\ unlockedLevel' = 0
  /\ selectedCategoryId' = NULL
  /\ selectedSubcategoryLabel' = NULL
  /\ UNCHANGED income
  /\ Handled("IncomeCrumb")

\* The mutant leaves the subcategory selected.
TaxCrumb_KeepsSubcategory ==
  /\ variant = "breadcrumb" /\ ~Busy
  /\ IF unlockedLevel >= 1
     THEN /\ unlockedLevel' = 1
          /\ selectedCategoryId' = NULL
          /\ UNCHANGED selectedSubcategoryLabel
     ELSE UNCHANGED <<unlockedLevel, selectedCategoryId, selectedSubcategoryLabel>>
  /\ UNCHANGED income
  /\ Handled("TaxCrumb")

\* onClick of the Tax breadcrumb
TaxCrumb ==
  /\ variant = "breadcrumb" /\ ~Busy
  /\ IF unlockedLevel >= 1
     THEN /\ unlockedLevel' = 1
          /\ selectedCategoryId' = NULL
          /\ selectedSubcategoryLabel' = NULL
     ELSE UNCHANGED <<unlockedLevel, selectedCategoryId, selectedSubcategoryLabel>>
  /\ UNCHANGED income
  /\ Handled("TaxCrumb")

\* The mutant leaves the subcategory selected.
AllocationCrumb_KeepsSubcategory ==
  /\ variant = "breadcrumb" /\ ~Busy
  /\ IF unlockedLevel >= 2
     THEN /\ unlockedLevel' = 2
          /\ selectedCategoryId' = NULL
          /\ UNCHANGED selectedSubcategoryLabel
     ELSE UNCHANGED <<unlockedLevel, selectedCategoryId, selectedSubcategoryLabel>>
  /\ UNCHANGED income
  /\ Handled("AllocationCrumb")

\* The mutant goes back to the allocation with the category still selected.
AllocationCrumb_KeepsCategory ==
  /\ variant = "breadcrumb" /\ ~Busy
  /\ IF unlockedLevel >= 2
     THEN /\ unlockedLevel' = 2
          /\ selectedSubcategoryLabel' = NULL
          /\ UNCHANGED selectedCategoryId
     ELSE UNCHANGED <<unlockedLevel, selectedCategoryId, selectedSubcategoryLabel>>
  /\ UNCHANGED income
  /\ Handled("AllocationCrumb")

\* onClick of the Allocation breadcrumb
AllocationCrumb ==
  /\ variant = "breadcrumb" /\ ~Busy
  /\ IF unlockedLevel >= 2
     THEN /\ unlockedLevel' = 2
          /\ selectedCategoryId' = NULL
          /\ selectedSubcategoryLabel' = NULL
     ELSE UNCHANGED <<unlockedLevel, selectedCategoryId, selectedSubcategoryLabel>>
  /\ UNCHANGED income
  /\ Handled("AllocationCrumb")

\* The mutant's breadcrumb unlocks the level it names.
DrillDownCrumb_Unguarded ==
  /\ variant = "breadcrumb" /\ ~Busy
  /\ unlockedLevel' = 3
  /\ UNCHANGED <<income, selectedCategoryId, selectedSubcategoryLabel>>
  /\ Handled("DrillDownCrumb")

\* onClick of the Drill-down breadcrumb
DrillDownCrumb ==
  /\ variant = "breadcrumb" /\ ~Busy
  /\ IF unlockedLevel >= 3
     THEN unlockedLevel' = 3
     ELSE UNCHANGED unlockedLevel
  /\ UNCHANGED <<income, selectedCategoryId, selectedSubcategoryLabel>>
  /\ Handled("DrillDownCrumb")

\* onItemClick of the category ring (a slice or a rail label) on the breadcrumb
\* page; onSliceClick / the legend row's onClick on the legend page.  The
\* ring's items carry the labels of CATEGORIES, in its order.
CategoryClick(label) ==
  /\ ~Busy
  /\ CategoryRingShown
  /\ label \in Labels(Categories)
  /\ LET match == FindIndex(Categories, "label", label)
     IN  IF match # 0
         THEN /\ selectedCategoryId' = Categories[match].id
              /\ selectedSubcategoryLabel' = NULL
              /\ unlockedLevel' = IF variant = "breadcrumb"
                                  THEN unlockTo(unlockedLevel, 3)
                                  ELSE unlockedLevel
         ELSE UNCHANGED <<unlockedLevel, selectedCategoryId, selectedSubcategoryLabel>>
  /\ UNCHANGED income
  /\ Handled("CategoryClick")

\* onItemClick of the subcategory ring; onSliceClick / the legend row's onClick
SubcategoryClick(label) ==
  /\ ~Busy
  /\ SubcategoryRingShown
  /\ label \in Labels(selectedChildren)
  /\ selectedSubcategoryLabel' = label
  /\ UNCHANGED <<income, unlockedLevel, selectedCategoryId>>
  /\ Handled("SubcategoryClick")

\* useEffect(() => { setSelectedSubcategoryLabel(null) }, [selectedCategoryId])
SubcategoryEffect ==
  /\ EffectPending
  /\ selectedSubcategoryLabel' = NULL
  /\ effectCategoryId' = selectedCategoryId
  /\ UNCHANGED <<variant, income, unlockedLevel, selectedCategoryId, hist, call, ret>>
  /\ RingCommit

\* a label of the mounted ring
RingLabel(label) == ringMounted # "none" /\ label \in labelRefs

\* what an event of the ring or of the window leaves alone
RingHandled(op, label, measured) ==
  /\ ringHist' = [op |-> op, measured |-> measured, label |-> label]
  /\ UNCHANGED <<variant, income, unlockedLevel, selectedCategoryId,
                 selectedSubcategoryLabel, effectCategoryId, hist,
                 ringMounted, slices, listeners, closure, call, ret>>

\* The mutant's measurement drops the subcategory selection.
Resize_ClearsSelection(w) ==
  /\ ~Busy
  /\ w # viewport
  /\ viewport' = w
  /\ lines' = IF listeners > 0
              THEN measureLines(closure, labelRefs, ringMounted # "none", lines, w)
              ELSE lines
  /\ rerender' = (listeners > 0 /\ ringMounted # "none")
  /\ selectedSubcategoryLabel' = NULL
  /\ ringHist' = [op |-> "resize", measured |-> listeners > 0, label |-> NULL]
  /\ UNCHANGED <<variant, income, unlockedLevel, selectedCategoryId,
                 effectCategoryId, hist, ringMounted, slices, hoveredLabel,
                 listeners, closure, call, ret>>

\* The mutant's ring does not listen to the window.
Resize_Unheard(w) ==
  /\ ~Busy
  /\ w # viewport
  /\ viewport' = w
  /\ UNCHANGED <<lines, hoveredLabel, rerender>>
  /\ RingHandled("resize", NULL, FALSE)

\* The window is resized to the width w: every registered listener, the
\* measureLines of the mounted ring's last effect, runs over the slices it
\* closes over, and its setLines schedules a render of the ring.  After an
\* unmount the container is gone and measureLines returns early.
Resize(w) ==
  /\ ~Busy
  /\ w # viewport
  /\ viewport' = w
  /\ lines' = IF listeners > 0
              THEN measureLines(closure, labelRefs, ringMounted # "none", lines, w)
              ELSE lines
  /\ rerender' = (listeners > 0 /\ ringMounted # "none")
  /\ UNCHANGED hoveredLabel
  /\ RingHandled("resize", NULL, listeners > 0)

\* The mutant's hover measures the connectors again.
RailEnter_Remeasures(label) ==
  /\ ~Busy
  /\ RingLabel(label)
  /\ hoveredLabel' = label
  /\ lines' = measureLines(slices, labelRefs, TRUE, lines, viewport)
  /\ rerender' = TRUE
  /\ UNCHANGED viewport
  /\ RingHandled("RailEnter", label, TRUE)

\* onMouseEnter of a rail label: setHoveredLabel(item.label)
RailEnter(label) ==
  /\ ~Busy
  /\ RingLabel(label)
  /\ hoveredLabel' = label
  /\ UNCHANGED <<viewport, lines, rerender>>
  /\ RingHandled("RailEnter", label, FALSE)

\* onMouseLeave of a rail label: setHoveredLabel(null)
RailLeave ==
  /\ ~Busy
  /\ ringMounted # "none" /\ labelRefs # {}
  /\ hoveredLabel' = NULL
  /\ UNCHANGED <<viewport, lines, rerender>>
  /\ RingHandled("RailLeave", NULL, FALSE)

\* The mutant's chart does not report the slice the pointer entered.
SliceEnter_Unwired(label) ==
  /\ ~Busy
  /\ RingLabel(label)
  /\ UNCHANGED <<viewport, hoveredLabel, lines, rerender>>
  /\ RingHandled("SliceEnter", label, FALSE)

\* onMouseEnter of a slice of the Sunburst (hoverRingIndex = 0 = ringIndex):
\* onSliceHover(info) = setHoveredLabel(info.label)
SliceEnter(label) ==
  /\ ~Busy
  /\ RingLabel(label)
  /\ hoveredLabel' = label
  /\ UNCHANGED <<viewport, lines, rerender>>
  /\ RingHandled("SliceEnter", label, FALSE)

\* onMouseLeave of a slice: onSliceLeave() = setHoveredLabel(null)
SliceLeave ==
  /\ ~Busy
  /\ ringMounted # "none" /\ labelRefs # {}
  /\ hoveredLabel' = NULL
  /\ UNCHANGED <<viewport, lines, rerender>>
  /\ RingHandled("SliceLeave", NULL, FALSE)

\* The mutant computes the slices anew at every render: the effect's
\* dependency has changed, the effect runs, and its setLines schedules the
\* next render.
RingRender_SlicesNotMemoized ==
  /\ ~EffectPending
  /\ rerender
  /\ lines' = measureLines(slices, labelRefs, TRUE, lines, viewport)
  /\ rerender' = TRUE
  /\ UNCHANGED <<viewport, hoveredLabel>>
  /\ RingHandled("render", NULL, TRUE)

\* The render of the ring that setLines scheduled: items, size and thickness
\* are the props of the last commit, so useMemo returns the same slices, the
\* effect's dependency [slices] is unchanged and the effect does not run.
RingRender ==
  /\ ~EffectPending
  /\ rerender
  /\ rerender' = FALSE
  /\ UNCHANGED <<viewport, hoveredLabel, lines>>
  /\ RingHandled("render", NULL, FALSE)

\* className "active" of a rail label
RailActive(label) == hoveredLabel = label

\* className "active" of a slice: activeLabel ? activeLabel === it.label : no
SliceActive(label) == hoveredLabel # NULL /\ hoveredLabel = label

\* a connector drawn active
ConnectorActive(label) == hoveredLabel = label

\* no pure function is being called
NoCall == [fn |-> "none", arg |-> 0]
NoRet == [done |-> FALSE, val |-> 0]

PageInit ==
  /\ variant \in {"breadcrumb", "legend"}
  /\ income = 0
  /\ unlockedLevel = 0
  /\ selectedCategoryId = NULL
  /\ selectedSubcategoryLabel = NULL
  /\ effectCategoryId = NULL
  /\ hist = [op |-> "mount", unlockedLevel |-> 0, selectedCategoryId |-> NULL,
             selectedSubcategoryLabel |-> NULL]
  /\ viewport = InitialViewport
  /\ ringMounted = "none"
  /\ slices = <<>>
  /\ hoveredLabel = NULL
  /\ lines = <<>>
  /\ listeners = 0
  /\ closure = <<>>
  /\ rerender = FALSE
  /\ ringHist = NoRingHist

Init ==
  /\ PageInit
  /\ call = NoCall
  /\ ret = NoRet

Next ==
  \/ \E v \in PageIncomes : IncomeChange(v)
  \/ IncomeCardClick
  \/ IncomeCrumb
  \/ TaxCrumb
  \/ AllocationCrumb
  \/ DrillDownCrumb
  \/ \E label \in Labels(Categories) : CategoryClick(label)
  \/ \E label \in Labels(selectedChildren) : SubcategoryClick(label)
  \/ SubcategoryEffect
  \/ RingRender

Spec == Init /\ [][Next]_vars

\* the incomes typed where the pointer also moves over the ring
RingIncomes == {0, 50000}

\* the categories clicked there: those of at most MaxRingChildren subcategories
MaxRingChildren == 4

RingCategories ==
  {Categories[i].label :
     i \in {j \in 1..Len(Categories) : Len(Categories[j].children) <= MaxRingChildren}}

\* Spec with the ring's hover events, which change hoveredLabel only
NextRing ==
  \/ \E v \in RingIncomes : IncomeChange(v)
  \/ IncomeCardClick
  \/ IncomeCrumb
  \/ TaxCrumb
  \/ AllocationCrumb
  \/ DrillDownCrumb
  \/ \E label \in RingCategories : CategoryClick(label)
  \/ \E label \in Labels(selectedChildren) : SubcategoryClick(label)
  \/ SubcategoryEffect
  \/ RingRender
  \/ \E w \in Viewports : Resize(w)
  \/ \E label \in labelRefs : RailEnter(label)
  \/ RailLeave
  \/ \E label \in labelRefs : SliceEnter(label)
  \/ SliceLeave

SpecRing == Init /\ [][NextRing]_vars

\* the incomes typed where the ring's measurements are followed: two of them
\* give the ring slices
CycleIncomes == {0, 50000, 50001}

\* the events that trigger a measurement, and what follows them
NextCycle ==
  \/ \E v \in CycleIncomes : IncomeChange(v)
  \/ IncomeCardClick
  \/ IncomeCrumb
  \/ TaxCrumb
  \/ AllocationCrumb
  \/ DrillDownCrumb
  \/ \E label \in RingCategories : CategoryClick(label)
  \/ \E label \in Labels(selectedChildren) : SubcategoryClick(label)
  \/ SubcategoryEffect
  \/ RingRender
  \/ \E w \in Viewports : Resize(w)

\* React runs the effect and the render that are due
SpecCycle ==
  Init /\ [][NextCycle]_vars /\ WF_vars(SubcategoryEffect) /\ WF_vars(RingRender)

(***************************************************************************)
(* The pure functions, called on inputs drawn from bounded sets.           *)
(***************************************************************************)
LabelNames == <<"a", "b", "c", "d", "e", "f">>

\* incomes at and around every bracket boundary, below the deduction, negative
ProbeIncomes ==
  {-1000, -1, 0, 4000, 50000, 100000}
    \cup {nyStandardDeduction + t + d : t \in BracketBounds,
                                        d \in (-IncomeSpread)..IncomeSpread}

SeqsOf(S, n) == UNION {[1..k -> S] : k \in 0..n}

WeightGroup(ws) == [i \in 1..Len(ws) |-> [label |-> LabelNames[i], weight |-> ws[i]]]

DatasetGroups ==
  {CATEGORIES, CATEGORIES_V2}
    \cup {CATEGORIES[i].children : i \in 1..Len(CATEGORIES)}
    \cup {CATEGORIES_V2[i].children : i \in 1..Len(CATEGORIES_V2)}

GenericGroups == {WeightGroup(ws) : ws \in SeqsOf(0..MaxWeight, MaxLen)}

\* parent amounts: nothing, one unit, one dollar, the tax on an income of 50,000
ProbeDollars == {0, 1, MoneyScale, 150723000}

QuarterDollar == MoneyScale \div 4

RingItems(vs) == [i \in 1..Len(vs) |-> [label |-> LabelNames[i], value |-> vs[i] * QuarterDollar]]

ProbeRings == {RingItems(vs) : vs \in SeqsOf(0..MaxValue, MaxLen)}

\* the lists a subcategory is looked up in: none, and each category's children
ProbeSubcats == {<<>>} \cup {CATEGORIES[i].children : i \in 1..Len(CATEGORIES)}

\* the labels looked up: none, one no list has, the children of Education and
\* of Miscellaneous
ProbeLabels ==
  {NULL, "a"} \cup Labels(CATEGORIES[1].children) \cup Labels(CATEGORIES[3].children)

\* the slices measured: the first k labels; the label elements present: any
\* subset of those of MaxLen slices; the connectors of the last measurement
ProbeSlices == {[i \in 1..k |-> [label |-> LabelNames[i]]] : k \in 0..MaxLen}

ProbeRefs == SUBSET {LabelNames[i] : i \in 1..MaxLen}

ProbeLines == {<<>>, <<[label |-> LabelNames[MaxLen + 1], at |-> 800]>>}

\* slices with the midpoints of the mid-angles 0, 180 and -90 degrees on the
\* middle radius 157 of a ring of size 360
ProbeTargets ==
  {[label |-> LabelNames[1], isRight |-> TRUE,
    midX |-> 337 * PixelScale, midY |-> 180 * PixelScale],
   [label |-> LabelNames[2], isRight |-> FALSE,
    midX |-> 23 * PixelScale, midY |-> 180 * PixelScale],
   [label |-> LabelNames[3], isRight |-> TRUE,
    midX |-> 180 * PixelScale, midY |-> 23 * PixelScale]}

\* where a label's box begins, down from the top of the window; it is 32 high
ProbeTops == {330 * PixelScale, 367 * PixelScale}

\* the rectangles measured for a slice's label in a window of width w: the
\* label's, the container's and the chart's
ProbeLabelRect(a) == labelRectAt(a.viewport, a.slice.isRight, a.top, 32 * PixelScale)

ProbeContainerRect(a) == containerRectAt(a.viewport, 300 * PixelScale, 440 * PixelScale)

ProbeDonutRect(a) == donutRectAt(a.viewport, 340 * PixelScale)

\* One call, of one function on one input.  The inputs are of different
\* shapes, so the calls are enumerated function by function.
ProbeCall(c) ==
  \/ \E i \in ProbeIncomes : c = [fn |-> "computeNYCIncomeTax", arg |-> i]
  \/ \E g \in GenericGroups : c = [fn |-> "normalizeWeights", arg |-> g]
  \/ \E g \in DatasetGroups : c = [fn |-> "normalizeWeights", arg |-> g]
  \/ \E g \in GenericGroups, p \in ProbeDollars :
        c = [fn |-> "Allocate", arg |-> [group |-> g, parentDollars |-> p]]
  \/ \E g \in DatasetGroups, p \in ProbeDollars :
        c = [fn |-> "Allocate", arg |-> [group |-> g, parentDollars |-> p]]
  \/ \E r \in ProbeRings : c = [fn |-> "computeDonutSlices", arg |-> r]
  \/ \E r \in ProbeRings : c = [fn |-> "Sunburst", arg |-> r]
  \/ \E r \in ProbeRings : c = [fn |-> "rails", arg |-> r]
  \/ \E sl \in ProbeTargets, w \in Viewports, t \in ProbeTops :
        c = [fn |-> "measureLine", arg |-> [slice |-> sl, viewport |-> w, top |-> t]]
  \/ \E sc \in ProbeSubcats, l \in ProbeLabels :
        c = [fn |-> "selectedSubcategory", arg |-> [subcats |-> sc, label |-> l]]
  \/ \E ss \in ProbeSlices, refs \in ProbeRefs, has \in BOOLEAN, cur \in ProbeLines :
        c = [fn |-> "measureLines",
             arg |-> [slices |-> ss, refs |-> refs, hasElements |-> has, lines |-> cur]]

Return(v) ==
  /\ ret' = [done |-> TRUE, val |-> v]
  /\ UNCHANGED <<call, pageVars, ringVars>>

CallComputeNYCIncomeTax ==
  /\ call.fn = "computeNYCIncomeTax" /\ ~ret.done
  /\ Return(computeNYCIncomeTax(TaxParams(call.arg)))

CallNormalizeWeights ==
  /\ call.fn = "normalizeWeights" /\ ~ret.done
  /\ Return(normalizeWeights(call.arg))

CallAllocate ==
  /\ call.fn = "Allocate" /\ ~ret.done
  /\ Return(Allocate(call.arg.group, call.arg.parentDollars))

\* RingWithLabelRails: size = 360, thickness = 26, startAngle defaulted
CallComputeDonutSlices ==
  /\ call.fn = "computeDonutSlices" /\ ~ret.done
  /\ Return(computeDonutSlices(call.arg, 360, 26, DefaultStartAngle))

\* RingWithLabelRails: rings = [{items: ringItems, thickness, gap: 8}], size
CallSunburst ==
  /\ call.fn = "Sunburst" /\ ~ret.done
  /\ Return(Sunburst(call.arg, 360, 26, DefaultStartAngle))

\* RingWithLabelRails: slices, leftItems and rightItems of the items
CallRails ==
  /\ call.fn = "rails" /\ ~ret.done
  /\ \E ss \in {computeDonutSlices(call.arg, 360, 26, DefaultStartAngle)} :
        Return([slices |-> ss, left |-> leftItems(ss), right |-> rightItems(ss)])

\* the connector of one slice, and the points of the polyline drawn for it
CallMeasureLine ==
  /\ call.fn = "measureLine" /\ ~ret.done
  /\ \E line \in {measureLine(call.arg.slice, ProbeLabelRect(call.arg),
                               ProbeContainerRect(call.arg), ProbeDonutRect(call.arg))} :
        Return([line |-> line, points |-> connectorPoints(line)])

CallSelectedSubcategory ==
  /\ call.fn = "selectedSubcategory" /\ ~ret.done
  /\ Return(selectedSubcategory(call.arg.subcats, call.arg.label))

\* setLines(next), or the early return that leaves lines as they were
CallMeasureLines ==
  /\ call.fn = "measureLines" /\ ~ret.done
  /\ Return(measureLines(call.arg.slices, call.arg.refs, call.arg.hasElements,
                         call.arg.lines, viewport))

InitFn ==
  /\ PageInit
  /\ variant = "breadcrumb"
  /\ ProbeCall(call)
  /\ ret = NoRet

NextFn ==
  \/ CallComputeNYCIncomeTax
  \/ CallNormalizeWeights
  \/ CallAllocate
  \/ CallComputeDonutSlices
  \/ CallSunburst
  \/ CallRails
  \/ CallMeasureLine
  \/ CallSelectedSubcategory
  \/ CallMeasureLines

SpecFn == InitFn /\ [][NextFn]_vars

(***************************************************************************)
(* Claims about the pure functions, checked under SpecFn.                  *)
(***************************************************************************)
TaxCall == call.fn = "computeNYCIncomeTax" /\ ret.done

NormCall == call.fn = "normalizeWeights" /\ ret.done

AllocCall == call.fn = "Allocate" /\ ret.done

DonutCall == call.fn = "computeDonutSlices" /\ ret.done

TaxOf(inc) == computeNYCIncomeTax(TaxParams(inc)).nycTax

TaxableOf(inc) == computeNYCIncomeTax(TaxParams(inc)).nycTaxableIncome

\* the schedule as the table of (lower bound, base, rate) the claims speak of
Brackets ==
  <<[lower |-> 0, base |-> 0, rate |-> Rate1],
    [lower |-> Threshold1, base |-> Base2, rate |-> Rate2],
    [lower |-> Threshold2, base |-> Base3, rate |-> Rate3],
    [lower |-> Threshold3, base |-> Base4, rate |-> Rate4]>>

BracketValue(k, x) ==
  Brackets[k].base * MoneyScale + Brackets[k].rate * (x - Brackets[k].lower)

Highest(S) == CHOOSE k \in S : \A j \in S : j <= k

\* the highest bracket whose lower bound is <= x
BracketAtOrAbove(x) == Highest({k \in 1..Len(Brackets) : Brackets[k].lower <= x})

\* the highest bracket whose lower bound is < x; the first bracket for x = 0
BracketAbove(x) == Highest({1} \cup {k \in 1..Len(Brackets) : Brackets[k].lower < x})

\* 0.36 dollars: what the schedule loses when taxable income passes 12,000
MaxDrop == 36 * (MoneyScale \div 100)

\* C1 (as claimed): for all incomes 0 <= a <= b the tax on a is at most the tax
\* on b, also when a and b lie on both sides of a bracket threshold.
C1_TaxNonDecreasing ==
  TaxCall =>
    \A a \in ProbeIncomes :
      (0 <= a /\ a <= call.arg) => TaxOf(a) <= ret.val.nycTax

\* C1 (amended): for all incomes 0 <= a <= b the tax on a is at most the tax on
\* b whenever both taxable incomes lie in the same bracket, and in every case
\* at most the tax on b plus 0.36 dollars.
C1_TaxNonDecreasingUpToRounding ==
  TaxCall =>
    \A a \in ProbeIncomes :
      (0 <= a /\ a <= call.arg) =>
        /\ TaxOf(a) <= ret.val.nycTax + MaxDrop
        /\ BracketAbove(TaxableOf(a)) = BracketAbove(ret.val.nycTaxableIncome)
             => TaxOf(a) <= ret.val.nycTax

\* the tax was computed one dollar above the first threshold, where it is lower
\* than at the threshold
C1_Witness ==
  /\ TaxCall
  /\ call.arg = nyStandardDeduction + Threshold1 + 1
  /\ ret.val.nycTax < TaxOf(nyStandardDeduction + Threshold1)

\* the base the schedule continues from above threshold t: the tax one dollar
\* above t less one dollar's tax at the rate of bracket k
BaseAbove(k) ==
  TaxOf(nyStandardDeduction + Brackets[k].lower + 1) - Brackets[k].rate

\* C2 (as claimed): at each threshold 12,000, 25,000, 50,000 the base amount of
\* the next bracket (369, 858, 1813) equals the value of the previous bracket's
\* formula at the threshold: the tax has no jump.
C2_ScheduleContinuous ==
  TaxCall =>
    \A k \in 2..Len(Brackets) :
      ret.val.nycTaxableIncome = Brackets[k].lower =>
        /\ BaseAbove(k) = Brackets[k].base * MoneyScale
        /\ ret.val.nycTax = BaseAbove(k)

\* C2 (amended): at each threshold the base amount of the next bracket (369,
\* 858, 1813) is the value of the previous bracket's formula at the threshold
\* (369.36, 858.06, 1812.75) rounded to the nearest dollar: the tax jumps there
\* by less than half a dollar.
C2_ScheduleContinuousToTheDollar ==
  TaxCall =>
    \A k \in 2..Len(Brackets) :
      ret.val.nycTaxableIncome = Brackets[k].lower =>
        /\ BaseAbove(k) = Brackets[k].base * MoneyScale
        /\ 2 * Abs(ret.val.nycTax - BaseAbove(k)) < MoneyScale

\* the tax was computed at the first threshold, and is not the next base
C2_Witness ==
  /\ TaxCall
  /\ ret.val.nycTaxableIncome = Threshold1
  /\ ret.val.nycTax # Base2 * MoneyScale

\* C3 (as claimed): the tax on taxable income x >= 0 is base_k + rate_k * (x -
\* lower_k) for the highest bracket k whose lower bound is <= x; an income of
\* 50,000 gives taxable income 42,000 and tax 1,507.23.
C3_HighestBracketAtOrAbove ==
  TaxCall =>
    /\ ret.val.nycTax =
         BracketValue(BracketAtOrAbove(ret.val.nycTaxableIncome), ret.val.nycTaxableIncome)
    /\ call.arg = 50000 =>
         ret.val.nycTaxableIncome = 42000 /\ ret.val.nycTax = 150723000

\* C3 (amended): the tax on taxable income x >= 0 is base_k + rate_k * (x -
\* lower_k) for the highest bracket k whose lower bound is < x (the first for
\* x = 0): a taxable income equal to a threshold is taxed by the bracket below
\* it; an income of 50,000 gives taxable income 42,000 and tax 1,507.23.
C3_HighestBracketAbove ==
  TaxCall =>
    /\ ret.val.nycTax =
         BracketValue(BracketAbove(ret.val.nycTaxableIncome), ret.val.nycTaxableIncome)
    /\ call.arg = 50000 =>
         ret.val.nycTaxableIncome = 42000 /\ ret.val.nycTax = 150723000

\* the tax was computed on a taxable income equal to the second threshold
C3_Witness ==
  /\ TaxCall
  /\ ret.val.nycTaxableIncome = Threshold2
  /\ ret.val.nycTax = BracketValue(2, Threshold2)

\* C4: every income is accepted, and an income at or below the standard
\* deduction, zero and negative incomes included, has taxable income 0 and
\* tax 0.
C4_ClampedToZero ==
  /\ (call.fn = "computeNYCIncomeTax" /\ ~ret.done) => ENABLED CallComputeNYCIncomeTax
  /\ (TaxCall /\ call.arg <= nyStandardDeduction) =>
       ret.val.nycTaxableIncome = 0 /\ ret.val.nycTax = 0

\* the tax was computed on a negative income
C4_Witness == TaxCall /\ call.arg < 0 /\ ret.val.nycTax = 0

\* C5: for a sibling group of non-negative weights with a sum > 0, every
\* fraction is in [0, 1] and the fractions of the group sum to 1, to within one
\* unit of rounding per item, whatever the unit of the group's weights: a
\* fraction is taken of the item's own group.
C5_FractionsSumToOne ==
  (NormCall /\ ret.val.sum > 0) =>
    /\ Len(ret.val.items) = Len(call.arg)
    /\ \A i \in 1..Len(ret.val.items) :
         /\ ret.val.items[i].norm >= 0
         /\ ret.val.items[i].norm <= NormScale
    /\ SumField(ret.val.items, "norm") <= NormScale
    /\ SumField(ret.val.items, "norm") >= NormScale - Len(ret.val.items)

\* the children of Education were normalised: their weights sum to 42.723,
\* not to the 100 of the top-level pool
C5_Witness ==
  /\ NormCall
  /\ call.arg = CATEGORIES[1].children
  /\ ret.val.sum = 42723

\* C6: for a sibling group whose weights sum to 0, the empty group included,
\* every fraction is 0 and every dollar amount allocated from it is 0; the
\* call returns one item per item of the group.
C6_ZeroSumGroup ==
  /\ (call.fn = "normalizeWeights" /\ ~ret.done) =>
       Len(normalizeWeights(call.arg).items) = Len(call.arg)
  /\ (NormCall /\ ret.val.sum = 0) =>
       /\ Len(ret.val.items) = Len(call.arg)
       /\ \A i \in 1..Len(ret.val.items) : ret.val.items[i].norm = 0
  /\ (AllocCall /\ SumWeights(call.arg.group) = 0) =>
       /\ Len(ret.val) = Len(call.arg.group)
       /\ \A i \in 1..Len(ret.val) : ret.val[i].norm = 0 /\ ret.val[i].dollars = 0

\* a dollar was allocated to a group of two items of weight 0
C6_Witness ==
  /\ AllocCall
  /\ Len(call.arg.group) = 2
  /\ SumWeights(call.arg.group) = 0
  /\ call.arg.parentDollars = MoneyScale
  /\ ret.val[1].dollars = 0

FullCircle == 360 * AngleScale

\* C8: for a list of slices with non-negative values of sum S > 0, slice i
\* sweeps 360 * v_i / S degrees, the spans are contiguous in input order from
\* the start angle (-90), and the sweeps sum to 360 degrees (to within one unit
\* of rounding per slice).
C8_SweepsFillTheCircle ==
  (DonutCall /\ SumValues(call.arg) > 0) =>
    LET S == SumValues(call.arg)
        n == Len(ret.val)
    IN  /\ n = Len(call.arg)
        /\ \A i \in 1..n : ret.val[i].angle = MulDiv(call.arg[i].value, FullCircle, S)
        /\ ret.val[1].start = DefaultStartAngle
        /\ \A i \in 1..(n - 1) : ret.val[i + 1].start = ret.val[i].start + ret.val[i].angle
        /\ SumField(ret.val, "angle") <= FullCircle
        /\ SumField(ret.val, "angle") >= FullCircle - n


\* the cosine of midAngle is >= 0: the direction of midAngle lies in the right
\* half of the ring, the top (270 = -90 degrees) and the bottom (90 degrees)
\* included
RightHalf(midAngle) ==
  LET m == midAngle % FullCircle
  IN  m <= 90 * AngleScale \/ m >= 270 * AngleScale

\* C19: a slice is classified right iff the cosine of its mid-angle is >= 0,
\* the boundary included: a slice whose mid-angle is exactly at the top or at
\* the bottom of the ring is classified right, however the angle is reached.
C19_BoundaryIsRight ==
  DonutCall =>
    \A i \in 1..Len(ret.val) : ret.val[i].isRight = RightHalf(ret.val[i].midAngle)
(***************************************************************************)
(* Claims about the page, checked under Spec.                              *)
(***************************************************************************)
\* the rounding n amounts allocated from parentDollars may lose together: each
\* fraction is rounded down, and each product again
Tolerance(n, parentDollars) == n * (parentDollars \div NormScale + 2)

Conserves(items, parentDollars) ==
  LET total == SumField(items, "dollars")
  IN  /\ total <= parentDollars
      /\ total >= parentDollars - Tolerance(Len(items), parentDollars)

\* C7: for every income the dollars of the top-level categories sum to the
\* computed tax, and the dollars of the subcategories of the selected category
\* sum to that category's dollars, to within rounding; each category receives
\* tax * weight / W, W the sum of the top-level weights: of the tax of 1,507.23
\* on an income of 50,000, Education (weight 29.71) receives 447.798.
C7_AllocationConservesDollars ==
  LET tax == nycTax
      alloc == categoryAlloc
      subcats == selectedSubcats
  IN  /\ Conserves(alloc, tax)
      /\ \A i \in 1..Len(Categories) :
           Abs(alloc[i].dollars
                 - MulDiv(tax, Categories[i].weight, SumWeights(Categories)))
             <= Tolerance(1, tax)
      /\ HasSelectedCategory =>
           /\ Len(subcats) = Len(selectedChildren)
           /\ Conserves(subcats, alloc[selectedCategoryIndex].dollars)
      /\ income = 50000 =>
           /\ tax = 150723000
           /\ alloc[1].id = "education"
           /\ Abs(alloc[1].dollars - 44779803) <= Tolerance(1, tax)

\* Education is selected with an income of 50,000: its children's dollars are
\* allocated from its 447.798
C7_Witness ==
  /\ income = 50000
  /\ selectedCategoryId = "education"
  /\ Len(selectedSubcats) = 9
  /\ nycTax > 0

\* C9 (as claimed): from one state to the next unlockedLevel decreases only by
\* the full reset, the Income breadcrumb.
C9_LevelDecreasesOnlyOnReset ==
  [][unlockedLevel' < unlockedLevel => hist'.op = "IncomeCrumb"]_vars

\* C9 (amended): from one state to the next unlockedLevel decreases only by a
\* breadcrumb that navigates back: Income (to 0), Tax (to 1 from 2 or 3) or
\* Allocation (to 2 from 3); an income edit, an income-card click, a category
\* click, a subcategory click and the Drill-down breadcrumb never decrease it.
C9_LevelDecreasesOnlyOnCrumbBack ==
  [][unlockedLevel' < unlockedLevel =>
       \/ hist'.op = "IncomeCrumb" /\ unlockedLevel' = 0
       \/ hist'.op = "TaxCrumb" /\ unlockedLevel' = 1
       \/ hist'.op = "AllocationCrumb" /\ unlockedLevel' = 2]_vars

\* the income card was clicked at level 3, which stayed 3
C9_Witness ==
  /\ hist.op = "IncomeCardClick"
  /\ hist.unlockedLevel = 3
  /\ unlockedLevel = 3

\* C10: whenever selectedCategoryId changes, no subcategory is selected in the
\* state after the change.
C10_CategoryChangeClearsSubcategory ==
  [][selectedCategoryId' # selectedCategoryId => selectedSubcategoryLabel' = NULL]_vars

\* Miscellaneous lost its selection while its child "Other than personal
\* service" was selected, a label City Employee Pensions has too
C10_Witness ==
  /\ hist.op = "AllocationCrumb"
  /\ hist.selectedCategoryId = "miscellaneous"
  /\ hist.selectedSubcategoryLabel = "Other than personal service"
  /\ selectedCategoryId = NULL
  /\ selectedSubcategoryLabel = NULL
  /\ "Other than personal service" \in Labels(CATEGORIES[5].children)


(***************************************************************************)
(* Claims about the selection and the unlocking, checked under Spec.       *)
(***************************************************************************)
\* C11: in every reachable state, if selectedSubcategoryLabel is set then
\* selectedCategoryId is set, to a category of the dataset, and the label is
\* the label of a child of that category.
C11_SubcategoryBelongsToCategory ==
  selectedSubcategoryLabel # NULL =>
    /\ selectedCategoryId # NULL
    /\ HasSelectedCategory
    /\ selectedSubcategoryLabel \in Labels(selectedChildren)

\* one subcategory was selected and a click has selected a sibling
C11_Witness ==
  /\ hist.op = "SubcategoryClick"
  /\ hist.selectedSubcategoryLabel # NULL
  /\ selectedSubcategoryLabel # NULL
  /\ selectedSubcategoryLabel # hist.selectedSubcategoryLabel
  /\ HasSelectedCategory

\* C13: the click of the Income breadcrumb, from any state, yields
\* unlockedLevel = 0, selectedCategoryId = null and selectedSubcategoryLabel =
\* null, and leaves the income as it was.
C13_IncomeCrumbResets ==
  [][hist'.op = "IncomeCrumb" =>
       /\ unlockedLevel' = 0
       /\ selectedCategoryId' = NULL
       /\ selectedSubcategoryLabel' = NULL
       /\ income' = income]_vars

\* the Income breadcrumb was clicked at level 3 with a category and a
\* subcategory selected and an income entered
C13_Witness ==
  /\ hist.op = "IncomeCrumb"
  /\ hist.unlockedLevel = 3
  /\ hist.selectedCategoryId # NULL
  /\ hist.selectedSubcategoryLabel # NULL
  /\ income > 0
  /\ unlockedLevel = 0
  /\ selectedCategoryId = NULL
  /\ selectedSubcategoryLabel = NULL

\* C20: an edit of the income changes the income only: unlockedLevel,
\* selectedCategoryId and selectedSubcategoryLabel stay as they were, so the
\* tax card stays hidden while unlockedLevel is 0.
C20_IncomeEditChangesIncomeOnly ==
  [][hist'.op = "IncomeChange" =>
       /\ unlockedLevel' = unlockedLevel
       /\ selectedCategoryId' = selectedCategoryId
       /\ selectedSubcategoryLabel' = selectedSubcategoryLabel
       /\ (unlockedLevel = 0 => ~TaxCardShown')]_vars

\* an income was entered at level 0, and the tax card is hidden
C20_Witness ==
  /\ hist.op = "IncomeChange"
  /\ hist.unlockedLevel = 0
  /\ income > 0
  /\ unlockedLevel = 0
  /\ ~TaxCardShown

(***************************************************************************)
(* Claims about the lookup of the selected subcategory and about the       *)
(* measurement of the connectors, checked under SpecFn.                    *)
(***************************************************************************)
SubcategoryCall == call.fn = "selectedSubcategory" /\ ret.done

\* C12: the resolved selected subcategory is null or an element of the list
\* with the selected label; it is null if selectedSubcategoryLabel is null or
\* is not the label of any element of the list, the empty list of no category
\* and of a category without children included.
C12_NoDanglingSubcategory ==
  SubcategoryCall =>
    LET subcats == call.arg.subcats
        label == call.arg.label
    IN  /\ ret.val \in 0..Len(subcats)
        /\ ret.val # 0 => subcats[ret.val].label = label
        /\ (label = NULL \/ label \notin Labels(subcats)) => ret.val = 0

\* a child of Education stayed selected while the children of another category
\* are looked through: no subcategory is selected
C12_Witness ==
  /\ SubcategoryCall
  /\ call.arg.label \in Labels(CATEGORIES[1].children)
  /\ Len(call.arg.subcats) > 0
  /\ call.arg.label \notin Labels(call.arg.subcats)
  /\ ret.val = 0

MeasureCall == call.fn = "measureLines" /\ ret.done

\* the positions of the connectors of a label
LinesOf(ls, label) == {j \in 1..Len(ls) : ls[j].label = label}

\* C17: measureLines, run with the container and the donut present, produces
\* no connector for a slice whose label element is absent and exactly one
\* connector for every other slice, and no connector besides.
C17_AbsentLabelSkipped ==
  (MeasureCall /\ call.arg.hasElements) =>
    LET ss == call.arg.slices
        refs == call.arg.refs
    IN  /\ \A i \in 1..Len(ss) :
             Cardinality(LinesOf(ret.val, ss[i].label))
               = IF ss[i].label \in refs THEN 1 ELSE 0
        /\ \A j \in 1..Len(ret.val) : ret.val[j].label \in Labels(ss)

\* of three slices the second has no label element: two connectors
C17_Witness ==
  /\ MeasureCall /\ call.arg.hasElements
  /\ Len(call.arg.slices) = 3
  /\ call.arg.refs = {LabelNames[1], LabelNames[3]}
  /\ Len(ret.val) = 2
  /\ ret.val[1].label = LabelNames[1]
  /\ ret.val[2].label = LabelNames[3]

(***************************************************************************)
(* Claims about RingWithLabelRails, checked under SpecRing.                *)
(***************************************************************************)
\* the connectors are those of a measurement of the slices ss at the width w:
\* one per slice, in the slices' order
Measured(ls, ss, w) ==
  /\ Len(ls) = Len(ss)
  /\ \A i \in 1..Len(ss) : ls[i] = [label |-> ss[i].label, at |-> w]

\* C14: a resize of the window, after a subcategory has been selected as at any
\* other time, leaves income, unlockedLevel, selectedCategoryId and
\* selectedSubcategoryLabel unchanged, and with a ring mounted it runs the
\* measurement again: the connector list is replaced by the one measured at
\* the new width.
C14_ResizeKeepsSelection ==
  [][ringHist'.op = "resize" =>
       /\ income' = income
       /\ unlockedLevel' = unlockedLevel
       /\ selectedCategoryId' = selectedCategoryId
       /\ selectedSubcategoryLabel' = selectedSubcategoryLabel
       /\ ringMounted # "none" =>
            /\ ringHist'.measured
            /\ viewport' # viewport
            /\ Measured(lines', slices, viewport')]_vars

\* the window was resized with a subcategory selected and its ring mounted
C14_Witness ==
  /\ ringHist.op = "resize"
  /\ selectedSubcategoryLabel # NULL
  /\ selectedSubcategoryLabel \in Labels(selectedChildren)
  /\ ringMounted = "subcategory"
  /\ viewport # InitialViewport
  /\ Len(lines) > 0
  /\ lines[1].at = viewport

\* C15: measureLines runs when a ring is mounted, after every commit that gives
\* the ring new slices, and on every resize of the window while the ring is
\* mounted; so with a ring mounted the connectors are those of the current
\* slices at the current width, and the connector list never holds a label
\* that is not a label of the current slices.
C15_MeasuredOnEveryTrigger ==
  /\ ringHist.op \in {"mount", "update"} => ringHist.measured
  /\ (ringHist.op = "resize" /\ ringMounted # "none") => ringHist.measured
  /\ ringMounted # "none" => Measured(lines, slices, viewport)
  /\ \A j \in 1..Len(lines) : lines[j].label \in Labels(slices)

\* the category ring was mounted, and the window was resized after; the
\* connectors are those of the 14 categories at the new width
C15_Witness ==
  /\ ringHist.op = "resize"
  /\ ringMounted = "category"
  /\ viewport # InitialViewport
  /\ Len(lines) = Len(CATEGORIES)
  /\ \A j \in 1..Len(lines) : lines[j].at = viewport

\* C16: a mounted ring has exactly one resize listener registered, and with no
\* ring mounted, whichever way the ring was torn down, none is registered.
C16_OneListenerPerMountedRing ==
  listeners = IF ringMounted # "none" THEN 1 ELSE 0

\* the ring was torn down by an edit of the income to 0
C16_Witness ==
  /\ hist.op = "IncomeChange"
  /\ income = 0
  /\ ringHist.op = "unmount"
  /\ ringMounted = "none"
  /\ listeners = 0

\* the slices the rail, the chart and the connectors draw active
RailActives == {i \in 1..Len(slices) : RailActive(slices[i].label)}

SliceActives == {i \in 1..Len(slices) : SliceActive(slices[i].label)}

ConnectorActives == {j \in 1..Len(lines) : ConnectorActive(lines[j].label)}

\* C18: within the mounted ring at most one label is active, the same for the
\* rail, the chart and the connectors; after the pointer entered a rail label
\* or a slice exactly that label is active, and after it left either none is.
C18_OneSharedActiveLabel ==
  ringMounted # "none" =>
    /\ Cardinality(RailActives) <= 1
    /\ SliceActives = RailActives
    /\ ConnectorActives = RailActives
    /\ ringHist.op \in {"RailEnter", "SliceEnter"} =>
         \E i \in 1..Len(slices) :
            /\ slices[i].label = ringHist.label
            /\ RailActives = {i}
    /\ ringHist.op \in {"RailLeave", "SliceLeave"} => RailActives = {}

\* the pointer entered a slice of the category ring while another label was
\* active: the rail label of that slice is the active one
C18_Witness ==
  /\ ringHist.op = "SliceEnter"
  /\ ringMounted = "category"
  /\ ringHist.label = CATEGORIES[2].label
  /\ RailActives = {2}
  /\ SliceActives = {2}

(***************************************************************************)
(* Claims about the levels and what they show, checked under Spec.         *)
(***************************************************************************)
\* the id of the category a label of the top-level ring stands for
CategoryIdOf(label) == Categories[FindIndex(Categories, "label", label)].id

\* C21: a click on a slice or a label of the top-level ring sets
\* selectedCategoryId to the id of that category and leaves unlockedLevel at 3,
\* whatever it was before.
C21_CategoryClickUnlocksLevel3 ==
  [][\A label \in Labels(Categories) :
       CategoryClick(label) =>
         /\ selectedCategoryId' = CategoryIdOf(label)
         /\ unlockedLevel' = 3]_vars

\* C22: with an income entered, what is shown is determined by unlockedLevel:
\* at level 0 neither the tax nor a ring, at level 1 the tax and no ring, at
\* level 2 the tax and the top-level ring, at level 3 the tax and the
\* subcategory ring of the selected category.
C22_ShownByLevel ==
  hasIncome =>
    /\ unlockedLevel = 0 =>
         ~TaxCardShown /\ ~CategoryRingShown /\ ~SubcategoryRingShown
    /\ unlockedLevel = 1 =>
         TaxCardShown /\ ~CategoryRingShown /\ ~SubcategoryRingShown
    /\ unlockedLevel = 2 =>
         TaxCardShown /\ CategoryRingShown /\ ~SubcategoryRingShown
    /\ unlockedLevel = 3 =>
         TaxCardShown /\ ~CategoryRingShown /\ SubcategoryRingShown
               /\ HasSelectedCategory

\* C23: a click on the breadcrumb of level L (Tax 1, Allocation 2, Drill-down
\* 3) while unlockedLevel < L leaves unlockedLevel, selectedCategoryId and
\* selectedSubcategoryLabel unchanged.
C23_LockedCrumbDoesNothing ==
  [][/\ (TaxCrumb /\ unlockedLevel < 1) =>
          UNCHANGED <<unlockedLevel, selectedCategoryId, selectedSubcategoryLabel>>
     /\ (AllocationCrumb /\ unlockedLevel < 2) =>
          UNCHANGED <<unlockedLevel, selectedCategoryId, selectedSubcategoryLabel>>
     /\ (DrillDownCrumb /\ unlockedLevel < 3) =>
          UNCHANGED <<unlockedLevel, selectedCategoryId, selectedSubcategoryLabel>>]_vars

\* the Drill-down breadcrumb was clicked at level 2, with the top-level ring
\* shown, and the level is still 2
C23_Witness ==
  /\ hist.op = "DrillDownCrumb"
  /\ hist.unlockedLevel = 2
  /\ hasIncome
  /\ unlockedLevel = 2
  /\ selectedCategoryId = NULL

\* C28: on the breadcrumb page unlockedLevel = 3 exactly when a category is
\* selected.
C28_Level3IffCategorySelected ==
  variant = "breadcrumb" => (unlockedLevel = 3 <=> selectedCategoryId # NULL)

\* a category was selected at level 3 and the Allocation breadcrumb has
\* cleared it and lowered the level to 2
C28_Witness ==
  /\ variant = "breadcrumb"
  /\ hist.op = "AllocationCrumb"
  /\ hist.unlockedLevel = 3
  /\ hist.selectedCategoryId # NULL
  /\ unlockedLevel = 2
  /\ selectedCategoryId = NULL

(***************************************************************************)
(* Claims about the geometry of the ring and its rails, checked under      *)
(* SpecFn.                                                                 *)
(***************************************************************************)
SunburstCall == call.fn = "Sunburst" /\ ret.done

\* C29: for every list of non-negative values computeDonutSlices and Sunburst
\* compute the same total, and for each slice the same percentage, the same
\* mid-angle and the same point at the mid-angle on the middle radius of the
\* ring: the target of a connector is the midpoint of the drawn slice.
C29_ConnectorGeometryIsDrawnGeometry ==
  (SunburstCall /\ \A i \in 1..Len(call.arg) : call.arg[i].value >= 0) =>
    LET drawn == ret.val
        donut == computeDonutSlices(call.arg, 360, 26, DefaultStartAngle)
    IN  /\ Len(drawn) = Len(donut)
        /\ SunburstTotal(call.arg) = DonutTotal(call.arg)
        /\ \A i \in 1..Len(drawn) :
             /\ drawn[i].label = donut[i].label
             /\ drawn[i].total = DonutTotal(call.arg)
             /\ drawn[i].pct = donut[i].pct
             /\ drawn[i].mid = donut[i].midAngle
             /\ drawn[i].labelPoint = donut[i].mid
             /\ drawn[i].start <= donut[i].midAngle
             /\ donut[i].midAngle <= drawn[i].end

\* three slices of values 0.25, 0.5 and 1.25: their sum is above the floor of
\* the total, and the second is drawn from 45 to 135 degrees past the top
C29_Witness ==
  /\ SunburstCall
  /\ Len(call.arg) = 3
  /\ call.arg[1].value = QuarterDollar
  /\ call.arg[2].value = 2 * QuarterDollar
  /\ call.arg[3].value = 5 * QuarterDollar
  /\ ret.val[2].start = DefaultStartAngle + 45 * AngleScale
  /\ ret.val[2].end = DefaultStartAngle + 135 * AngleScale
  /\ ret.val[2].labelPoint.r = 157 * PixelScale

RailsCall == call.fn = "rails" /\ ret.done

\* the positions of a label in a rail
RailPlaces(rail, label) == {j \in 1..Len(rail) : rail[j].label = label}

\* the rail's items are in ascending order of midY
AscendingMidY(rail) ==
  \A j \in 1..Len(rail) : \A k \in j..Len(rail) :
     MidYRank(rail[j].midAngle) <= MidYRank(rail[k].midAngle)

\* C24: every slice is in exactly one of the two rails, once, in the right
\* rail iff its side is right, the rails hold nothing else, and within each
\* rail the items are in ascending order of midY.
C24_RailsPartitionAndOrder ==
  RailsCall =>
    LET ss == ret.val.slices
        left == ret.val.left
        right == ret.val.right
    IN  /\ Len(left) + Len(right) = Len(ss)
        /\ \A i \in 1..Len(ss) :
             /\ Cardinality(RailPlaces(right, ss[i].label)) = IF ss[i].isRight THEN 1 ELSE 0
             /\ Cardinality(RailPlaces(left, ss[i].label)) = IF ss[i].isRight THEN 0 ELSE 1
        /\ \A j \in 1..Len(left) : left[j] \in {ss[i] : i \in 1..Len(ss)}
        /\ \A j \in 1..Len(right) : right[j] \in {ss[i] : i \in 1..Len(ss)}
        /\ AscendingMidY(left)
        /\ AscendingMidY(right)

\* values 0.5, 0.25, 0.25: the first slice, centred at 0 degrees, is alone in
\* the right rail; the third, centred at 225 degrees and so higher up than the
\* second at 135, comes first in the left rail
C24_Witness ==
  /\ RailsCall
  /\ Len(call.arg) = 3
  /\ call.arg[1].value = 2 * QuarterDollar
  /\ call.arg[2].value = QuarterDollar
  /\ call.arg[3].value = QuarterDollar
  /\ Len(ret.val.right) = 1
  /\ ret.val.right[1].label = LabelNames[1]
  /\ Len(ret.val.left) = 2
  /\ ret.val.left[1].label = LabelNames[3]
  /\ ret.val.left[2].label = LabelNames[2]

MeasureLineCall == call.fn = "measureLine" /\ ret.done

\* the polyline is anchor, elbow, target; the anchor is at the vertical centre
\* of the label's box, on its right edge if onRightEdge and on its left edge
\* otherwise; the elbow is 16px from it at the same height, to the right if
\* onRightEdge and to the left otherwise; the target is the slice's midpoint
\* moved by the chart's offset in the container.  All in the container's
\* coordinates.
Routed(points, slice, labelRect, containerRect, donutRect, onRightEdge) ==
  /\ Len(points) = 3
  /\ points[1].x = (IF onRightEdge THEN RectRight(labelRect) ELSE labelRect.left)
                     - containerRect.left
  /\ points[1].y = labelRect.top + labelRect.height \div 2 - containerRect.top
  /\ points[2].x = IF onRightEdge THEN points[1].x + 16 * PixelScale
                   ELSE points[1].x - 16 * PixelScale
  /\ points[2].y = points[1].y
  /\ points[3].x = slice.midX + donutRect.left - containerRect.left
  /\ points[3].y = slice.midY + donutRect.top - containerRect.top

\* C25 (as claimed): for every measured label the anchor is the right edge of
\* the box of a left-rail label and the left edge of the box of a right-rail
\* label, at the box's vertical centre; the elbow is 16px from the anchor
\* toward the chart at the same height; the target is the slice's (midX, midY)
\* moved by the chart container's offset.
C25_AnchorOnTheEdgeFacingTheChart ==
  MeasureLineCall =>
    Routed(ret.val.points, call.arg.slice, ProbeLabelRect(call.arg),
           ProbeContainerRect(call.arg), ProbeDonutRect(call.arg),
           ~call.arg.slice.isRight)

\* the left edge of the label's box is left of the vertical centre line of
\* the ring's container
LeftOfCentre(labelRect, containerRect) ==
  labelRect.left < containerRect.left + containerRect.width \div 2

\* C25 (amended): for every measured label the anchor is at the vertical centre
\* of the label's box, on its right edge if the box begins left of the vertical
\* centre line of the ring's container and on its left edge otherwise; the
\* elbow is 16px from the anchor at the same height, to the right in the first
\* case and to the left in the second; the target is the slice's (midX, midY)
\* moved by the chart container's offset.  In the three-column layout of a
\* window wider than 1100px the first case is that of the left-rail labels
\* exactly, so there the anchor is on the edge facing the chart and the elbow
\* toward the chart; in the one-column layout every label is in the first case.
C25_AnchorByPositionOfTheLabel ==
  MeasureLineCall =>
    LET labelRect == ProbeLabelRect(call.arg)
        containerRect == ProbeContainerRect(call.arg)
    IN  /\ Routed(ret.val.points, call.arg.slice, labelRect, containerRect,
                  ProbeDonutRect(call.arg), LeftOfCentre(labelRect, containerRect))
        /\ ThreeColumns(call.arg.viewport) =>
             (LeftOfCentre(labelRect, containerRect) <=> ~call.arg.slice.isRight)
        /\ ~ThreeColumns(call.arg.viewport) => LeftOfCentre(labelRect, containerRect)

\* in a window 1280 wide the label of the slice centred at 0 degrees begins at
\* 834: its connector starts at its left edge, 799 from the container's, turns
\* 16px to the left, and ends at the slice's midpoint
C25_Witness ==
  /\ MeasureLineCall
  /\ call.arg.viewport = 1280
  /\ call.arg.slice.isRight
  /\ call.arg.slice.label = LabelNames[1]
  /\ ret.val.points[1].x = 799 * PixelScale
  /\ ret.val.points[2].x = 783 * PixelScale
  /\ ret.val.points[3].x = (411 + 14 + 337) * PixelScale

(***************************************************************************)
(* The ring's hover, measurement and render cycle.                         *)
(***************************************************************************)
\* a hover event of the ring has been handled: the pointer has entered or left
\* a rail label or a slice
HoverOps == {"RailEnter", "RailLeave", "SliceEnter", "SliceLeave"}

Hover == ringHist'.op \in HoverOps

\* C26: a change of the hovered label leaves the slice list, hence the two
\* rails, which are leftItems and rightItems of the slice list and hold the
\* labels' buttons, and every stored connector unchanged, and runs no
\* measurement.
C26_HoverIsPresentationOnly ==
  [][Hover =>
       /\ slices' = slices
       /\ labelRefs' = labelRefs
       /\ lines' = lines
       /\ viewport' = viewport
       /\ listeners' = listeners
       /\ ~ringHist'.measured]_vars

\* the pointer has entered a rail label of a ring of several measured slices,
\* after a resize to the narrow window
C26_Witness ==
  /\ ringHist.op = "RailEnter"
  /\ hoveredLabel = ringHist.label
  /\ Len(slices) >= 2
  /\ Len(lines) = Len(slices)
  /\ viewport = 800

\* C27: every measurement runs over the slices of the last commit: the
\* measureLines registered as the resize listener closes over the slices
\* displayed, whatever commits came before, and a step that measured, on a
\* mount, on new slices or on a resize, leaves the connectors of exactly the
\* displayed slices at the window's width, in a ring that is mounted.
C27_MeasurementSeesTheCommittedSlices ==
  /\ listeners > 0 => closure = slices
  /\ ringHist.measured =>
       /\ ringMounted # "none"
       /\ closure = slices
       /\ Measured(lines, slices, viewport)

\* the income was edited with the category ring mounted, which gave the ring
\* slices of new values, and the window was resized after: the listener
\* measured the slices of the new income
C27_Witness ==
  /\ ringHist.op = "resize"
  /\ ringHist.measured
  /\ hist.op = "IncomeChange"
  /\ ringMounted = "category"
  /\ income > 0
  /\ \A i \in 1..Len(closure) : closure[i].income = income
  /\ Len(lines) = Len(closure)

\* C30: the render of the ring that follows a measurement changes neither the
\* slices nor the connectors nor the listener, runs no measurement and
\* schedules no render; so a trigger (mount, new slices, resize) is followed by
\* the one measurement of its own step and by one render, after which nothing
\* is due.
C30_MeasurementDoesNotRetrigger ==
  /\ [][ringHist'.op = "render" =>
          /\ rerender /\ ~rerender'
          /\ ~ringHist'.measured
          /\ slices' = slices
          /\ closure' = closure
          /\ lines' = lines
          /\ listeners' = listeners]_vars
  /\ [][(rerender' /\ ~rerender) => ringHist'.measured]_vars
  /\ (rerender ~> ~rerender)

\* the ring has rendered the connectors measured on a resize, and nothing is
\* due
C30_Witness ==
  /\ ringHist.op = "render"
  /\ ~rerender
  /\ ~EffectPending
  /\ ringMounted # "none"
  /\ viewport # InitialViewport
  /\ Measured(lines, slices, viewport)
=============================================================================
